---- MODULE Spec2Model ----
(***************************************************************************)
(* Session store, hook handlers and background finalizer of ghost.         *)
(*                                                                         *)
(* The filesystem under .ai-sessions/ is the only shared state.  Every     *)
(* hook is a short-lived process; a process takes one step per filesystem  *)
(* call (existsSync, readFileSync, writeFileSync, appendFileSync,          *)
(* renameSync), so any two hook processes interleave at that granularity.  *)
(***************************************************************************)
EXTENDS Integers, Sequences, FiniteSets, TLC

(***************************************************************************)
(* Bounds and input sets                                                   *)
(***************************************************************************)

\* Hook processes launched in one behaviour.
MaxHooks == 3

\* Slots for hook processes that run at the same time.
Procs == {"p1", "p2"}

\* External (agent) session ids carried in the hook envelope.
AgentIds == {"A", "B"}

\* Internal session ids generateSessionId can return.
GhostIds == {"g1", "g2"}

\* "No id": a missing session-map entry, an empty current-id marker.
None == "none"

\* Prompt texts.  "quote" stands for the prompt `see <!-- ph:0badc0de -->`,
\* a prompt that quotes a transcript line and so carries a hash comment.
PromptTexts == {"fix", "quote"}

\* The repository root and the file path a PostToolUse envelope carries.
RepoRoot == "/repo"
FilePaths == {"/repo/src/auth.ts"}

\* Task descriptions; "token" stands for a description holding
\* `token=<20+ characters>`, which the built-in redactor rewrites.
TaskNotes == {"token"}

HookKinds == {"start", "prompt", "write", "task", "stop", "end"}

(***************************************************************************)
(* Transcript contents                                                     *)
(*                                                                         *)
(* A file is a record: exists, keys (the keys of its YAML frontmatter, {}  *)
(* when the text has no frontmatter), tags (the frontmatter's tags         *)
(* sequence) and body (the blocks appended, in file order).  A block is    *)
(* [k, n, h, t, by]: k the kind of block, n and h the number and hash of   *)
(* a Prompt heading, t the text, and by the agent                          *)
(* id of the hook that wrote it (not part of the file: bookkeeping for     *)
(* the isolation properties).                                              *)
(***************************************************************************)

NoFile == [exists |-> FALSE, keys |-> {}, tags |-> <<>>, body |-> <<>>]

\* createSession: frontmatter session, branch, base_commit, started, tags.
NewFrontmatter == {"session", "branch", "base_commit", "started", "tags"}

NewTranscript ==
  [exists |-> TRUE, keys |-> NewFrontmatter, tags |-> <<>>, body |-> <<>>]

\* promptHash: first 8 hex characters of the MD5 of the text.
promptHash(text) ==
  CASE text = "fix" -> "8ab87d4f"
    [] text = "add" -> "34ec78fc"
    [] text = "quote" -> "839d3a2d"
    [] OTHER -> "00000000"

\* The hash comments a text carries in its own characters.
MarkersIn(text) == IF text = "quote" THEN <<"0badc0de">> ELSE <<>>

PromptBlock(n, text, agent) ==
  [k |-> "P", n |-> n, h |-> promptHash(text), t |-> text, by |-> agent]

\* appendFileModification: an absolute path under the root becomes relative.
NormalizePath(path) ==
  IF path = "/repo/src/auth.ts" THEN "src/auth.ts" ELSE path

ModifiedBlock(path, agent) ==
  [k |-> "M", n |-> 0, h |-> "", t |-> NormalizePath(path), by |-> agent]

TaskBlock(note, agent) ==
  [k |-> "T", n |-> 0, h |-> "", t |-> note, by |-> agent]

TurnBlock(agent) ==
  [k |-> "D", n |-> 0, h |-> "", t |-> "", by |-> agent]

\* /^## Prompt \d+/gm over the file, in file order: the heading numbers.
RECURSIVE PromptNumbers(_)
PromptNumbers(body) ==
  IF body = <<>> THEN <<>>
  ELSE (IF Head(body).k = "P" THEN <<Head(body).n>> ELSE <<>>)
       \o PromptNumbers(Tail(body))

\* /<!-- ph:([0-9a-f]{8}) -->/g over the file, in file order.
RECURSIVE HashMatches(_)
HashMatches(body) ==
  IF body = <<>> THEN <<>>
  ELSE (IF Head(body).k = "P" THEN <<Head(body).h>> ELSE <<>>)
       \o MarkersIn(Head(body).t)
       \o HashMatches(Tail(body))

\* The texts of the Prompt blocks, in file order.
RECURSIVE PromptTextsOf(_)
PromptTextsOf(body) ==
  IF body = <<>> THEN <<>>
  ELSE (IF Head(body).k = "P" THEN <<Head(body).t>> ELSE <<>>)
       \o PromptTextsOf(Tail(body))

\* appendPrompt's dedup test on the content it read: the last hash comment
\* of the file against the hash of the new text; with no hash comment in
\* the file (legacy), the last "> " line against the text.
IsDuplicatePrompt(content, text) ==
  LET hm == HashMatches(content.body)
      pt == PromptTextsOf(content.body)
  IN  IF Len(hm) > 0
      THEN hm[Len(hm)] = promptHash(text)
      ELSE Len(pt) > 0 /\ pt[Len(pt)] = text

\* redactWithBuiltinPatterns on one block: the generic-secret pattern.
RedactText(t) == IF t = "token" THEN "token=****" ELSE t

RedactBlock(b) == [b EXCEPT !.t = RedactText(b.t)]

RedactBody(body) == [i \in 1..Len(body) |-> RedactBlock(body[i])]

redactWithBuiltinPatterns(content) ==
  [content EXCEPT !.body = RedactBody(content.body)]

\* addFrontmatterField: parse the frontmatter ({} when there is none), set
\* the key, write the frontmatter back in front of the body.
addFrontmatterField(content, key) ==
  [content EXCEPT !.keys = content.keys \cup {key}]

\* appendFileSync: O_APPEND | O_CREAT, so a missing file is created.
AppendTo(content, block) ==
  [exists |-> TRUE, keys |-> content.keys, tags |-> content.tags,
   body |-> Append(content.body, block)]

(***************************************************************************)
(* State                                                                   *)
(***************************************************************************)

VARIABLES
  active,      \* active/<id>.md, per internal id
  completed,   \* completed/<id>.md, per internal id
  sessionMap,  \* active/session-map.json: agent id -> internal id or None
  currentId,   \* active/current-id: an internal id, or None when empty/absent
  spawned,     \* Background Finalizers spawned so far, per internal id
  proc,        \* the hook processes: position and locals
  launched,    \* hook processes launched so far
  owner,       \* history: the agent id createSession made each internal id for
  sawLive,     \* history: per hook process, whether a transcript of its agent
               \* id was in active/ at any moment of its run
  bg,          \* the Background Finalizer processes, per internal id
  pidFile,     \* .background.pid exists
  bgLog,       \* .background.log: the lines written, as <<id, message>>
  tagsJson,    \* tags.json: the text of the index
  decisionsMd, \* decisions.md: the entries appended, in file order
  mistakesMd,  \* mistakes.md: the entries appended, in file order
  gitNote,     \* the internal id whose transcript is the note on HEAD
  installed    \* the external tools found on PATH

fsVars == <<active, completed, sessionMap, currentId>>
bgVars == <<bg, pidFile, bgLog, tagsJson, decisionsMd, mistakesMd, gitNote,
            installed>>

\* The shared-knowledge state: the clones of one remote repository, their
\* refs and knowledge files, and the processes running the sync operations.
VARIABLES
  clock,         \* Date.now(), in minutes
  refs,          \* per clone: ref name -> commit, or NoCommit
  head,          \* per clone: the ref HEAD points to (the checked-out branch)
  worktree,      \* per clone: the project files of the working tree
  tmpIndex,      \* per clone: .git/ghost-tmp-index, the tree it holds
  localMistakes, \* per clone: .ai-sessions/mistakes.md, its entries in order
  lastSync,      \* per clone: .ai-sessions/.last-sync
  remote,        \* origin's ghost/knowledge branch: a commit, or NoCommit
  sp,            \* the processes running sync operations: position and locals
  syncs,         \* `ghost sync` commands launched so far
  netCalls,      \* history: the network-bound calls made, by caller
  fetchLog,      \* history: the remote fetches made, in order
  syncLog        \* history: the `ghost sync` commands started and ended

syncVars == <<clock, refs, head, worktree, tmpIndex, localMistakes, lastSync,
              remote, sp, syncs, netCalls, fetchLog, syncLog>>

\* The pure functions (merge strategies, parsing, ranking, settings
\* rewriting) are applied to an input and leave a result.
VARIABLES
  input,         \* the input a function is applied to
  result,        \* what it returned, or NotRun
  branchTags,    \* tags.json on the local ghost/knowledge branch
  settingsJson,  \* .claude/settings.json, the hook wiring file
  comodCache,    \* .ai-sessions/.comod-cache.json
  tmpFiles,      \* .git/ghost-tmp-<name>, the blob staging files of a clone
  writer         \* each writeSharedFiles call: its position and locals

pureVars == <<input, result, branchTags, settingsJson, comodCache, tmpFiles,
                 writer>>
vars == <<active, completed, sessionMap, currentId, spawned, proc, launched,
          owner, sawLive, bg, pidFile, bgLog, tagsJson, decisionsMd,
          mistakesMd, gitNote, installed, syncVars, pureVars>>

EmptyMap == [a \in AgentIds |-> None]

\* The external tools: the summarizer (claude CLI) and the semantic-search
\* engine (qmd).
Tools == {"claude", "qmd"}

(***************************************************************************)
(* tags.json: a text that is not JSON, the JSON null, or a JSON object      *)
(* (its members in the order written, each value an array of session ids   *)
(* or a value that is not an array); or no file                            *)
(***************************************************************************)

NoTagsFile == [kind |-> "absent"]

InvalidJson == [kind |-> "invalid"]

JsonNull == [kind |-> "null"]

JsonObject(members) == [kind |-> "object", members |-> members]

JsonArray(ids) == [array |-> TRUE, ids |-> ids]

\* A member value that is not an array (a string).
NotAnArray == [array |-> FALSE, ids |-> << >>]

\* What mergeTags ends in when it throws instead of returning.
TypeError == [kind |-> "TypeError"]

RECURSIVE DedupSeq(_, _)
DedupSeq(xs, seen) ==
  IF xs = << >> THEN << >>
  ELSE IF Head(xs) \in seen THEN DedupSeq(Tail(xs), seen)
       ELSE <<Head(xs)>> \o DedupSeq(Tail(xs), seen \cup {Head(xs)})

\* try { JSON.parse(text) } catch { {} }
ParseTags(text) ==
  IF text.kind \in {"invalid", "absent"} THEN JsonObject(<< >>) ELSE text

KeysOf(obj) == [i \in 1..Len(obj.members) |-> obj.members[i][1]]

\* Array.isArray(obj[key]) ? obj[key] : []
IdsOf(obj, key) ==
  LET at == {i \in 1..Len(obj.members) : obj.members[i][1] = key}
  IN  IF at = {} THEN << >>
      ELSE LET val == obj.members[CHOOSE i \in at : TRUE][2]
           IN  IF val.array THEN val.ids ELSE << >>

\* mergeTags(remote, local): per tag the remote ids followed by the local
\* ones, each id once; Object.keys of null throws.
mergeTags(remoteJson, localJson) ==
  LET remoteObj == ParseTags(remoteJson)
      localObj == ParseTags(localJson)
  IN  IF remoteObj.kind = "null" \/ localObj.kind = "null" THEN TypeError
      ELSE LET allKeys == DedupSeq(KeysOf(remoteObj) \o KeysOf(localObj), {})
           IN  JsonObject([i \in 1..Len(allKeys) |->
                 <<allKeys[i],
                   JsonArray(DedupSeq(IdsOf(remoteObj, allKeys[i])
                                        \o IdsOf(localObj, allKeys[i]),
                                      {}))>>])

\* for (const tag of tags): a tag without member gets one, a session id
\* not in the tag's array is pushed.
RECURSIVE AddToIndex(_, _, _)
AddToIndex(members, sessionId, tags) ==
  IF tags = << >> THEN members
  ELSE LET tag == Head(tags)
           with == IF \E i \in 1..Len(members) : members[i][1] = tag
                   THEN members
                   ELSE Append(members, <<tag, JsonArray(<< >>)>>)
           pushed == [i \in 1..Len(with) |->
                        IF with[i][1] = tag
                             /\ \A j \in 1..Len(with[i][2].ids) :
                                  with[i][2].ids[j] # sessionId
                        THEN <<tag, JsonArray(Append(with[i][2].ids, sessionId))>>
                        ELSE with[i]]
       IN  AddToIndex(pushed, sessionId, Tail(tags))

\* Faulty variant: the session id is pushed without looking for it.
updateTagsIndex_noIncludes(text, sessionId, tags) ==
  LET members == IF text.kind = "object" THEN text.members ELSE << >>
      all == members \o [i \in 1..Len(tags) |-> <<tags[i], JsonArray(<< >>)>>]
  IN  JsonObject([i \in 1..Len(all) |->
                    IF \E j \in 1..Len(tags) : tags[j] = all[i][1]
                    THEN <<all[i][1], JsonArray(Append(all[i][2].ids, sessionId))>>
                    ELSE all[i]])

\* updateTagsIndex: the index read from tags.json ({} when the file is
\* missing or not JSON), the pairs added, the file written; on the JSON
\* null index[tag] throws and nothing is written.
updateTagsIndex(text, sessionId, tags) ==
  IF text.kind = "null" THEN text
  ELSE JsonObject(AddToIndex(ParseTags(text).members, sessionId, tags))

\* The result of summarize and extractSections: ok is FALSE when the
\* summarizer is missing or failed (summarize returns null).
NoSummary ==
  [ok |-> FALSE, skip |-> FALSE, tags |-> <<>>, decisions |-> <<>>,
   mistakes |-> <<>>]

\* A finalizer that has not been spawned.
BgOff ==
  [pc |-> "off", summary |-> NoSummary, content |-> NoFile, ran |-> {},
   raised |-> {}, caught |-> {}]

BgInit ==
  /\ bg = [g \in GhostIds |-> BgOff]
  /\ pidFile = FALSE
  /\ bgLog = {}
  /\ tagsJson = NoTagsFile
  /\ decisionsMd = <<>>
  /\ mistakesMd = <<>>
  /\ gitNote = None
  /\ installed = Tools

(***************************************************************************)
(* Shared knowledge: the repository state the sync operations work on      *)
(***************************************************************************)

Clones == {"cA", "cB"}

\* The repository the hooks run in is clone cA.
HookClone == "cA"

SyncProcs == {"s1"}

\* Whatever runs a sync operation: a `ghost sync` process or a hook process.
Runners == Procs \cup SyncProcs

\* Bounds: `ghost sync` commands launched, and minutes on the clock.
MaxSyncs == 3
MaxClock == 6

\* FETCH_INTERVAL_MS, in minutes.
FETCH_INTERVAL_MS == 5

\* BRANCH, as the ref the plumbing commands name.
BRANCH == "refs/heads/ghost/knowledge"

\* The branch the developer has checked out.
MainRef == "refs/heads/main"

RefNames == {MainRef, BRANCH}

\* A tree of the knowledge branch: whether it holds mistakes.md, and the
\* entries of that blob (legacy `- title` lines).
EmptyTree == [has |-> FALSE, md |-> <<>>]

TreeOf(md) == [has |-> TRUE, md |-> md]

\* A commit is the chain of <<committer, tree>> from the root commit to it,
\* so that ancestry is the prefix order; NoCommit is an unset ref.
NoCommit == << >>

CommitTree(parent, by, tree) == Append(parent, [by |-> by, tree |-> tree])

TipTree(commit) == commit[Len(commit)].tree

IsAncestor(x, y) == Len(x) <= Len(y) /\ SubSeq(y, 1, Len(x)) = x

\* The commit on the developer's branch, cloned from origin.
MainCommit == CommitTree(NoCommit, "origin", EmptyTree)

\* .last-sync: missing, unreadable (readFileSync throws), holding text that
\* is not a number, or holding a time.
Missing == -1
Unreadable == -2
NotANumber == -3

\* No function has been applied.
NotRun == [done |-> FALSE]

\* No settings file.
NoSettings == [kind |-> "absent"]

\* No cache file of the co-modification graph.
NoCache == [kind |-> "absent"]

\* The files a shared-branch tree can hold, as far as the writers go.
SharedNames == {"knowledge.md", "mistakes.md", "decisions.md"}

\* A file that is not there.
Absent == "absent"

NoTmpFiles == [n \in SharedNames |-> Absent]

\* The calls of writeSharedFiles that can run at once in one clone: the sync
\* stages of two Background Finalizers.
Writers == {"w1", "w2"}

WriterIdle == [pc |-> "idle", files |-> << >>, todo |-> << >>, blob |-> Absent,
               tree |-> Absent, parent |-> NoCommit, ret |-> "none"]

WritersIdle == [w \in Writers |-> WriterIdle]

PureInit ==
  /\ input = NotRun
  /\ result = NotRun
  /\ branchTags = NoTagsFile
  /\ settingsJson = NoSettings
  /\ comodCache = NoCache
  /\ tmpFiles = NoTmpFiles
  /\ writer = WritersIdle

\* The mistakes.md of the two developers: one legacy line each.
MistakeA == <<[k |-> "l", v |-> <<"a">>]>>

MistakeB == <<[k |-> "l", v |-> <<"b">>]>>

IdleSync ==
  [pc |-> "idle", clone |-> HookClone, by |-> "none", cmd |-> "none",
   ret |-> "none", files |-> EmptyTree, tree |-> EmptyTree,
   parent |-> NoCommit, fetched |-> FALSE]

\* Fresh clones of one remote without a knowledge branch: clone cA holds
\* the entry a in its mistakes.md, clone cB the entry b.
SyncInit ==
  /\ clock = 0
  /\ refs = [c \in Clones |->
               [r \in RefNames |-> IF r = MainRef THEN MainCommit ELSE NoCommit]]
  /\ head = [c \in Clones |-> MainRef]
  /\ worktree = [c \in Clones |-> {"README.md"}]
  /\ tmpIndex = [c \in Clones |-> [exists |-> FALSE, tree |-> EmptyTree]]
  /\ localMistakes = [c \in Clones |-> IF c = "cA" THEN MistakeA ELSE MistakeB]
  /\ lastSync = [c \in Clones |-> Missing]
  /\ remote = NoCommit
  /\ sp = [r \in Runners |-> IdleSync]
  /\ syncs = 0
  /\ netCalls = {}
  /\ fetchLog = << >>
  /\ syncLog = << >>

IdleProc ==
  [pc |-> "idle", kind |-> "none", agent |-> None, arg |-> "", gid |-> None,
   cgid |-> None, map |-> EmptyMap, content |-> NoFile, n |-> 0,
   out |-> "none", internal |-> FALSE]

\* No session yet, no hook process running.
HookInit ==
  /\ active = [g \in GhostIds |-> NoFile]
  /\ completed = [g \in GhostIds |-> NoFile]
  /\ sessionMap = EmptyMap
  /\ currentId = None
  /\ spawned = [g \in GhostIds |-> 0]
  /\ proc = [p \in Procs |-> IdleProc]
  /\ launched = 0
  /\ owner = [g \in GhostIds |-> None]
  /\ sawLive = [p \in Procs |-> FALSE]

Init ==
  /\ HookInit
  /\ BgInit
  /\ SyncInit
  /\ PureInit

\* A transcript made for agent id a is in active/ (evaluated on the
\* successor state of the step being taken).
LiveAfter(a) == \E g \in GhostIds : owner'[g] = a /\ active'[g].exists

\* sawLive is reset when a process is launched and kept once it has ended.
Track ==
  sawLive' = [p \in Procs |->
                IF proc'[p].pc = "idle" THEN sawLive[p]
                ELSE (IF proc[p].pc = "idle" THEN FALSE ELSE sawLive[p])
                     \/ LiveAfter(proc'[p].agent)]

\* What every step of a hook process leaves alone: the finalizer's state.
HookFrame == Track /\ UNCHANGED <<bgVars, syncVars, pureVars>>

Goto(p, label) == proc' = [proc EXCEPT ![p].pc = label]

\* The hook process ends: returned, threw (the dispatcher swallows the
\* error and exits 0), or spawned (SessionEnd started a finalizer).
Finish(p, outcome) ==
  proc' = [proc EXCEPT ![p] =
             [IdleProc EXCEPT !.kind = proc[p].kind, !.agent = proc[p].agent,
                              !.out = outcome]]

\* The internal ids that name a file: generateSessionId draws 32 random
\* bits, taken here never to repeat an id already on disk.
UsedIds == {g \in GhostIds : active[g].exists \/ completed[g].exists}

Starting == {p \in Procs : proc[p].pc = "s_create"}

\* Process slots are interchangeable: a new process takes the first idle one.
SlotOrder(p, q) == p = q \/ p = "p1"

ArgsOf(kind) ==
  CASE kind = "prompt" -> PromptTexts
    [] kind = "write" -> FilePaths
    [] kind = "task" -> TaskNotes
    [] OTHER -> {""}

FirstStep(kind) ==
  CASE kind = "start" -> "s_create"
    [] kind = "end" -> "f_resolve"
    [] OTHER -> "resolve"

\* The hosting agent fires a hook: a new process reads the envelope.
Launch(p, kind, agent, arg) ==
  /\ proc[p].pc = "idle"
  /\ \A q \in Procs : proc[q].pc = "idle" => SlotOrder(p, q)
  /\ launched < MaxHooks
  /\ kind = "start" =>
       Cardinality(UsedIds) + Cardinality(Starting) < Cardinality(GhostIds)
  /\ proc' = [proc EXCEPT ![p] =
                [IdleProc EXCEPT !.pc = FirstStep(kind), !.kind = kind,
                                 !.agent = agent, !.arg = arg]]
  /\ launched' = launched + 1
  /\ UNCHANGED <<fsVars, spawned, owner>>
  /\ HookFrame

\* Faulty variant: main does not look at the marker.
InternalGuard_ignored(marker) == FALSE

\* main: if (process.env.GHOST_INTERNAL) process.exit(0), before the command
\* is parsed.
InternalGuard(marker) == marker

\* A hook fired by the hosting agent that a finalizer's summarizer spawned:
\* the hook process inherits GHOST_INTERNAL=1 from summarize's environment.
\* With the guard the process exits at once; past the guard it would run
\* its handler like any other hook.
LaunchInternal(p, kind, agent, arg) ==
  /\ \E g \in GhostIds : spawned[g] > 0
  /\ proc[p].pc = "idle"
  /\ \A q \in Procs : proc[q].pc = "idle" => SlotOrder(p, q)
  /\ launched < MaxHooks
  /\ (~InternalGuard(TRUE) /\ kind = "start") =>
       Cardinality(UsedIds) + Cardinality(Starting) < Cardinality(GhostIds)
  /\ proc' = [proc EXCEPT ![p] =
                IF InternalGuard(TRUE)
                THEN [IdleProc EXCEPT !.kind = kind, !.agent = agent,
                                      !.out = "exit0", !.internal = TRUE]
                ELSE [IdleProc EXCEPT !.pc = FirstStep(kind), !.kind = kind,
                                      !.agent = agent, !.arg = arg,
                                      !.internal = TRUE]]
  /\ launched' = launched + 1
  /\ UNCHANGED <<fsVars, spawned, owner>>
  /\ HookFrame

(***************************************************************************)
(* SessionStart: createSession, then the read-only context assembly        *)
(***************************************************************************)

\* generateSessionId and the write of the frontmatter-only transcript.
CreateSessionFile(p) ==
  /\ proc[p].pc = "s_create"
  /\ \E id \in GhostIds \ UsedIds :
       /\ active' = [active EXCEPT ![id] = NewTranscript]
       /\ owner' = [owner EXCEPT ![id] = proc[p].agent]
       /\ proc' = [proc EXCEPT ![p].pc = "s_current", ![p].gid = id]
  /\ UNCHANGED <<completed, sessionMap, currentId, spawned, launched>>
  /\ HookFrame

\* writeFileSync(currentIdPath, id).
WriteCurrentId(p) ==
  /\ proc[p].pc = "s_current"
  /\ currentId' = proc[p].gid
  /\ Goto(p, IF proc[p].kind = "startPull" THEN "s_pull" ELSE "s_regRead")
  /\ UNCHANGED <<active, completed, sessionMap, spawned, launched, owner>>
  /\ HookFrame

\* registerSession: readSessionMap.
RegisterRead(p) ==
  /\ proc[p].pc = "s_regRead"
  /\ proc' = [proc EXCEPT ![p].pc = "s_regWrite", ![p].map = sessionMap]
  /\ UNCHANGED <<fsVars, spawned, launched, owner>>
  /\ HookFrame

\* registerSession: map[agent] = id; writeSessionMap.  handleSessionStart
\* then only reads, and returns the context block.
RegisterWrite(p) ==
  /\ proc[p].pc = "s_regWrite"
  /\ sessionMap' = [proc[p].map EXCEPT ![proc[p].agent] = proc[p].gid]
  /\ Finish(p, "returned")
  /\ UNCHANGED <<active, completed, currentId, spawned, launched, owner>>
  /\ HookFrame

(***************************************************************************)
(* Prompt, PostWrite, PostTask, Stop: the appenders                        *)
(***************************************************************************)

\* Faulty variant: the id is taken from the current-id marker, as for the
\* callers that pass no agent id, instead of from the session map.
resolveGhostId_fromCurrentId(agent) == currentId

\* resolveGhostId inside getSessionPathForHook: the map entry, or null.
resolveGhostId(agent) == sessionMap[agent]

\* getSessionPathForHook, first half: no map entry, no path, return.
ResolveSessionPath(p) ==
  /\ proc[p].pc = "resolve"
  /\ IF resolveGhostId(proc[p].agent) = None
     THEN Finish(p, "returned")
     ELSE proc' = [proc EXCEPT ![p].pc = "exists",
                               ![p].gid = resolveGhostId(proc[p].agent)]
  /\ UNCHANGED <<fsVars, spawned, launched, owner>>
  /\ HookFrame

\* Faulty variant: the path is returned without the existsSync test.
CheckSessionFile_noExistsTest(p) ==
  /\ proc[p].pc = "exists"
  /\ Goto(p, IF proc[p].kind = "prompt" THEN "dedupExists" ELSE "append")
  /\ UNCHANGED <<fsVars, spawned, launched, owner>>
  /\ HookFrame

\* getSessionPathForHook, second half: existsSync(path), else return.
CheckSessionFile(p) ==
  /\ proc[p].pc = "exists"
  /\ IF ~active[proc[p].gid].exists
     THEN Finish(p, "returned")
     ELSE Goto(p, IF proc[p].kind = "prompt" THEN "dedupExists" ELSE "append")
  /\ UNCHANGED <<fsVars, spawned, launched, owner>>
  /\ HookFrame

BlockOf(kind, arg, agent) ==
  CASE kind = "write" -> ModifiedBlock(arg, agent)
    [] kind = "task" -> TaskBlock(arg, agent)
    [] OTHER -> TurnBlock(agent)

\* appendFileModification / appendTaskNote / appendTurnDelimiter:
\* appendFileSync(path, block) on the path resolved earlier.
AppendBlock(p) ==
  /\ proc[p].pc = "append"
  /\ active' = [active EXCEPT ![proc[p].gid] =
                  AppendTo(@, BlockOf(proc[p].kind, proc[p].arg, proc[p].agent))]
  /\ Finish(p, "returned")
  /\ UNCHANGED <<completed, sessionMap, currentId, spawned, launched, owner>>
  /\ HookFrame

\* appendPrompt: if (existsSync(path)), else straight to the count.
DedupExists(p) ==
  /\ proc[p].pc = "dedupExists"
  /\ Goto(p, IF active[proc[p].gid].exists THEN "dedupRead" ELSE "countResolve")
  /\ UNCHANGED <<fsVars, spawned, launched, owner>>
  /\ HookFrame

\* appendPrompt: readFileSync(path) and the dedup test; ENOENT throws.
DedupRead(p) ==
  /\ proc[p].pc = "dedupRead"
  /\ IF ~active[proc[p].gid].exists
     THEN Finish(p, "threw")
     ELSE IF IsDuplicatePrompt(active[proc[p].gid], proc[p].arg)
          THEN Finish(p, "returned")
          ELSE Goto(p, "countResolve")
  /\ UNCHANGED <<fsVars, spawned, launched, owner>>
  /\ HookFrame

\* getPromptCount: getSessionPathForHook again, from the map as it is now.
CountResolve(p) ==
  /\ proc[p].pc = "countResolve"
  /\ IF resolveGhostId(proc[p].agent) = None
     THEN proc' = [proc EXCEPT ![p].pc = "appendPrompt", ![p].n = 1]
     ELSE proc' = [proc EXCEPT ![p].pc = "countExists",
                               ![p].cgid = resolveGhostId(proc[p].agent)]
  /\ UNCHANGED <<fsVars, spawned, launched, owner>>
  /\ HookFrame

\* getPromptCount: existsSync inside getSessionPathForHook; no path, 0.
CountExists(p) ==
  /\ proc[p].pc = "countExists"
  /\ IF ~active[proc[p].cgid].exists
     THEN proc' = [proc EXCEPT ![p].pc = "appendPrompt", ![p].n = 1]
     ELSE Goto(p, "countExists2")
  /\ UNCHANGED <<fsVars, spawned, launched, owner>>
  /\ HookFrame

\* getPromptCount: if (!path || !existsSync(path)) return 0.
CountExists2(p) ==
  /\ proc[p].pc = "countExists2"
  /\ IF ~active[proc[p].cgid].exists
     THEN proc' = [proc EXCEPT ![p].pc = "appendPrompt", ![p].n = 1]
     ELSE Goto(p, "countRead")
  /\ UNCHANGED <<fsVars, spawned, launched, owner>>
  /\ HookFrame

\* getPromptCount on a content: the number of heading matches.
getPromptCount(content) == Len(PromptNumbers(content.body))

\* getPromptCount: readFileSync and count; n is the count plus one.
CountRead(p) ==
  /\ proc[p].pc = "countRead"
  /\ IF ~active[proc[p].cgid].exists
     THEN Finish(p, "threw")
     ELSE proc' = [proc EXCEPT ![p].pc = "appendPrompt",
                               ![p].n = getPromptCount(active[proc[p].cgid]) + 1]
  /\ UNCHANGED <<fsVars, spawned, launched, owner>>
  /\ HookFrame

\* appendPrompt: appendFileSync(path, "## Prompt n <!-- ph:hash -->...").
AppendPromptBlock(p) ==
  /\ proc[p].pc = "appendPrompt"
  /\ active' = [active EXCEPT ![proc[p].gid] =
                  AppendTo(@, PromptBlock(proc[p].n, proc[p].arg, proc[p].agent))]
  /\ Finish(p, "returned")
  /\ UNCHANGED <<completed, sessionMap, currentId, spawned, launched, owner>>
  /\ HookFrame

(***************************************************************************)
(* SessionEnd: finalizeSession, then the detached spawn                    *)
(***************************************************************************)

\* finalizeSession: resolveGhostId; no entry, return null.
FinalizeResolve(p) ==
  /\ proc[p].pc = "f_resolve"
  /\ IF resolveGhostId(proc[p].agent) = None
     THEN Finish(p, "returned")
     ELSE proc' = [proc EXCEPT ![p].pc = "f_exists",
                               ![p].gid = resolveGhostId(proc[p].agent)]
  /\ UNCHANGED <<fsVars, spawned, launched, owner>>
  /\ HookFrame

\* finalizeSession: if (!existsSync(activePath)) return null.
FinalizeExists(p) ==
  /\ proc[p].pc = "f_exists"
  /\ IF ~active[proc[p].gid].exists
     THEN Finish(p, "returned")
     ELSE Goto(p, "f_read")
  /\ UNCHANGED <<fsVars, spawned, launched, owner>>
  /\ HookFrame

\* finalizeSession: readFileSync(activePath); ENOENT throws.
FinalizeRead(p) ==
  /\ proc[p].pc = "f_read"
  /\ IF ~active[proc[p].gid].exists
     THEN Finish(p, "threw")
     ELSE proc' = [proc EXCEPT ![p].pc = "f_write",
                               ![p].content = active[proc[p].gid]]
  /\ UNCHANGED <<fsVars, spawned, launched, owner>>
  /\ HookFrame

\* Faulty variant: the redacted content is written back without the ended
\* field.
EndedContent_noEnded(content) == redactWithBuiltinPatterns(content)

\* What finalizeSession writes back: the content it read, redacted, with
\* the ended field.
EndedContent(content) ==
  addFrontmatterField(redactWithBuiltinPatterns(content), "ended")

\* finalizeSession: writeFileSync(activePath, endedContent): O_CREAT, so
\* the file is written also when it has been moved meanwhile.
FinalizeWrite(p) ==
  /\ proc[p].pc = "f_write"
  /\ active' = [active EXCEPT ![proc[p].gid] = EndedContent(proc[p].content)]
  /\ proc' = [proc EXCEPT ![p].pc = "f_rename", ![p].content = NoFile]
  /\ UNCHANGED <<completed, sessionMap, currentId, spawned, launched, owner>>
  /\ HookFrame

\* finalizeSession: renameSync(activePath, compPath): replaces the target;
\* ENOENT throws.
FinalizeRename(p) ==
  /\ proc[p].pc = "f_rename"
  /\ IF ~active[proc[p].gid].exists
     THEN /\ Finish(p, "threw")
          /\ UNCHANGED <<active, completed>>
     ELSE /\ completed' = [completed EXCEPT ![proc[p].gid] = active[proc[p].gid]]
          /\ active' = [active EXCEPT ![proc[p].gid] = NoFile]
          /\ Goto(p, "f_unregRead")
  /\ UNCHANGED <<sessionMap, currentId, spawned, launched, owner>>
  /\ HookFrame

\* unregisterSession: readSessionMap.
UnregisterRead(p) ==
  /\ proc[p].pc = "f_unregRead"
  /\ proc' = [proc EXCEPT ![p].pc = "f_unregWrite", ![p].map = sessionMap]
  /\ UNCHANGED <<fsVars, spawned, launched, owner>>
  /\ HookFrame

\* unregisterSession: delete map[agent]; writeSessionMap.
UnregisterWrite(p) ==
  /\ proc[p].pc = "f_unregWrite"
  /\ sessionMap' = [proc[p].map EXCEPT ![proc[p].agent] = None]
  /\ proc' = [proc EXCEPT ![p].pc = "f_curRead", ![p].map = EmptyMap]
  /\ UNCHANGED <<active, completed, currentId, spawned, launched, owner>>
  /\ HookFrame

\* Faulty variant: the marker is cleared whatever it names.
CurrentIdRead_always(p) ==
  /\ proc[p].pc = "f_curRead"
  /\ Goto(p, "f_curWrite")
  /\ UNCHANGED <<fsVars, spawned, launched, owner>>
  /\ HookFrame

\* finalizeSession: read current-id; it is cleared only if it names this id.
CurrentIdRead(p) ==
  /\ proc[p].pc = "f_curRead"
  /\ Goto(p, IF currentId = proc[p].gid THEN "f_curWrite" ELSE "f_spawn")
  /\ UNCHANGED <<fsVars, spawned, launched, owner>>
  /\ HookFrame

\* finalizeSession: writeFileSync(idPath, "").
CurrentIdClear(p) ==
  /\ proc[p].pc = "f_curWrite"
  /\ currentId' = None
  /\ Goto(p, "f_spawn")
  /\ UNCHANGED <<active, completed, sessionMap, spawned, launched, owner>>
  /\ HookFrame

\* handleSessionEnd: finalize returned {path, ghostId}; Bun.spawn of the
\* Background Finalizer, detached and not awaited; the hook returns.
SpawnBackground(p) ==
  /\ proc[p].pc = "f_spawn"
  /\ spawned' = [spawned EXCEPT ![proc[p].gid] = @ + 1]
  /\ Finish(p, "spawned")
  /\ UNCHANGED <<fsVars, launched, owner>>
  /\ HookFrame

(***************************************************************************)
(* Background Finalizer (background.ts)                                    *)
(*                                                                         *)
(* bg[g] is the detached process SessionEnd spawned for internal id g.  It *)
(* takes one step per stage of the script.  A stage that reads or writes   *)
(* a file, or calls an external tool, can raise (an I/O error, a           *)
(* tags.json whose values are not arrays, a failing tool): whether it      *)
(* does is chosen nondeterministically.  ran, raised and caught record     *)
(* the stages entered, those that raised, and those whose error was        *)
(* caught by a try/catch of their own.                                     *)
(***************************************************************************)

\* Summaries the summarizer can return, as extractSections reads them.
SummaryInputs ==
  { NoSummary,
    [ok |-> TRUE, skip |-> FALSE, tags |-> <<"area:auth">>,
     decisions |-> <<"Use JWT">>, mistakes |-> <<"None">>],
    [ok |-> TRUE, skip |-> TRUE, tags |-> <<"area:auth">>,
     decisions |-> <<"Use JWT">>, mistakes |-> <<"Forgot await">>],
    [ok |-> TRUE, skip |-> FALSE, tags |-> <<>>,
     decisions |-> <<>>, mistakes |-> <<"Forgot await">>] }

\* The "## Summary" section appended to the transcript.
SummaryBlock == [k |-> "S", n |-> 0, h |-> "", t |-> "summary", by |-> None]

\* isJunkEntry: titles that carry no content.
isJunkEntry(title) == title \in {"None", "N/A"}

\* The entries appendDecision / appendMistake are called with, in order.
KnowledgeEntries(titles, g) ==
  LET kept == SelectSeq(titles, LAMBDA t : ~isJunkEntry(t))
  IN  [i \in 1..Len(kept) |-> [title |-> kept[i], session |-> g]]

\* sessionContent.split(/^---$/m): the blocks between turn delimiters.
RECURSIVE SplitTurns(_)
SplitTurns(body) ==
  IF body = <<>> THEN << <<>> >>
  ELSE LET rest == SplitTurns(Tail(body))
       IN  IF Head(body).k = "D"
           THEN << <<>> >> \o rest
           ELSE << <<Head(body)>> \o Head(rest) >> \o Tail(rest)

\* /^- Modified: (.+)$/gm over one turn.
ModifiedIn(turn) == {turn[i].t : i \in {j \in 1..Len(turn) : turn[j].k = "M"}}

\* detectCorrections: <<file, turn>> for every file modified in a turn and
\* in the next one.
detectCorrections(content) ==
  LET turns == SplitTurns(content.body)
  IN  {c \in {NormalizePath(f) : f \in FilePaths} \X (1..(Len(turns) - 1)) :
         c[1] \in ModifiedIn(turns[c[2]]) \cap ModifiedIn(turns[c[2] + 1])}

\* The files with two or more corrections.
RepeatedFiles(content) ==
  {f \in {NormalizePath(q) : q \in FilePaths} :
     Cardinality({c \in detectCorrections(content) : c[1] = f}) >= 2}

\* [...new Set([...existingTags, ...tags])]
RECURSIVE MergeTags(_, _)
MergeTags(existing, tags) ==
  IF tags = <<>> THEN existing
  ELSE MergeTags(IF \E i \in 1..Len(existing) : existing[i] = Head(tags)
                 THEN existing ELSE Append(existing, Head(tags)),
                 Tail(tags))

\* getMostRecentCompletedId: the last file name of completed/, sorted.
getMostRecentCompletedId ==
  IF completed["g2"].exists THEN "g2"
  ELSE IF completed["g1"].exists THEN "g1" ELSE None

\* log(msg): one line appended to .background.log.
BgLog(g, msg) == bgLog' = bgLog \cup {<<g, msg>>}

\* The process leaves stage step for position label.
BgGo(g, step, label, ok) ==
  bg' = [bg EXCEPT ![g].pc = label,
                   ![g].ran = @ \cup {step},
                   ![g].raised = IF ok THEN @ ELSE @ \cup {step}]

\* The same for a stage with a try/catch of its own.
BgGoCaught(g, step, label, ok) ==
  bg' = [bg EXCEPT ![g].pc = label,
                   ![g].ran = @ \cup {step},
                   ![g].raised = IF ok THEN @ ELSE @ \cup {step},
                   ![g].caught = IF ok THEN @ ELSE @ \cup {step}]

\* What no finalizer stage touches.
BgFrame ==
  UNCHANGED <<sessionMap, currentId, spawned, proc, launched, owner, sawLive,
              installed, syncVars, pureVars>>

\* Start-up: the pid file is written, then the first log line.
BgStart(g) ==
  /\ bg[g].pc = "start"
  /\ pidFile' = TRUE
  /\ BgLog(g, "Starting background finalization")
  /\ bg' = [bg EXCEPT ![g].pc = "summarize"]
  /\ UNCHANGED <<active, completed, tagsJson, decisionsMd, mistakesMd, gitNote>>
  /\ BgFrame

\* Faulty variant: summarize does not test for the claude CLI.
SummaryChoices_noToolTest(g) ==
  IF completed[g].exists THEN SummaryInputs ELSE {NoSummary}

\* What summarize can return: null when the file is missing or the claude
\* CLI is not available; with the CLI, null (it failed) or a summary.
SummaryChoices(g) ==
  IF completed[g].exists /\ "claude" \in installed
  THEN SummaryInputs ELSE {NoSummary}

\* What indexSession can do: without qmd it returns ok: false; with it, it
\* indexes, or returns ok: false when a qmd command failed.
IndexOutcomes ==
  IF "qmd" \in installed THEN {"complete", "skipped", "failed"}
  ELSE {"skipped"}

\* The detached process SessionEnd spawned starts to run.
BgExec(g) ==
  /\ spawned[g] > 0
  /\ bg[g].pc = "off"
  /\ bg' = [bg EXCEPT ![g].pc = "start"]
  /\ UNCHANGED <<active, completed, pidFile, bgLog, tagsJson, decisionsMd,
                 mistakesMd, gitNote>>
  /\ BgFrame

\* 1. summarize(sessionPath): null when the file is missing, the claude
\* CLI is unavailable or fails; errors are caught inside summarize.
BgSummarize(g) ==
  /\ bg[g].pc = "summarize"
  /\ \E s \in SummaryChoices(g) :
       /\ bg' = [bg EXCEPT ![g].pc = IF s.ok THEN "appendSummary" ELSE "redact",
                           ![g].summary = s,
                           ![g].ran = @ \cup {"summarize"}]
       /\ BgLog(g, IF s.ok THEN "Summarization complete"
                   ELSE "Summarization skipped")
  /\ UNCHANGED <<active, completed, pidFile, tagsJson, decisionsMd, mistakesMd,
                 gitNote>>
  /\ BgFrame

\* appendFileSync(sessionPath, "## Summary ..."), inside the outer try only.
BgAppendSummary(g) ==
  /\ bg[g].pc = "appendSummary"
  /\ \E ok \in BOOLEAN :
       /\ completed' = IF ok
                       THEN [completed EXCEPT ![g] = AppendTo(@, SummaryBlock)]
                       ELSE completed
       /\ BgGo(g, "appendSummary",
               IF ~ok THEN "failed"
               ELSE IF bg[g].summary.skip THEN "markSkip" ELSE "tags", ok)
  /\ UNCHANGED <<active, pidFile, bgLog, tagsJson, decisionsMd, mistakesMd,
                 gitNote>>
  /\ BgFrame

\* sections.skipKnowledge: log, then read the file, add skip_knowledge to
\* the frontmatter and write it back; inside the outer try only.
BgMarkSkip(g) ==
  /\ bg[g].pc = "markSkip"
  /\ BgLog(g, "Session flagged as skip_knowledge")
  /\ \E ok \in (IF completed[g].exists THEN BOOLEAN ELSE {FALSE}) :
       /\ completed' = IF ok
                       THEN [completed EXCEPT
                               ![g] = addFrontmatterField(@, "skip_knowledge")]
                       ELSE completed
       /\ BgGo(g, "markSkip", IF ok THEN "tags" ELSE "failed", ok)
  /\ UNCHANGED <<active, pidFile, tagsJson, decisionsMd, mistakesMd, gitNote>>
  /\ BgFrame

\* The stage after the tags: knowledge ingestion unless the session was
\* flagged.
AfterTags(g) == IF bg[g].summary.skip THEN "redact" ELSE "decisions"

\* sections.tags.length > 0: addTags (frontmatter of the completed file,
\* else of the active one, then tags.json); inside the outer try only.  The
\* error can come before the frontmatter is written or at tags.json.
BgTags(g) ==
  /\ bg[g].pc = "tags"
  /\ IF bg[g].summary.tags = <<>>
     THEN /\ bg' = [bg EXCEPT ![g].pc = AfterTags(g)]
          /\ UNCHANGED <<active, completed, tagsJson, bgLog>>
     ELSE \E outcome \in {"ok", "raised", "raisedAtIndex"} :
            LET tags == bg[g].summary.tags
                wrote == outcome # "raised"
                found == completed[g].exists \/ active[g].exists
            IN  /\ completed' =
                     IF wrote /\ completed[g].exists
                     THEN [completed EXCEPT
                             ![g].tags = MergeTags(@, tags),
                             ![g].keys = @ \cup {"tags"}]
                     ELSE completed
                /\ active' =
                     IF wrote /\ ~completed[g].exists /\ active[g].exists
                     THEN [active EXCEPT
                             ![g].tags = MergeTags(@, tags),
                             ![g].keys = @ \cup {"tags"}]
                     ELSE active
                /\ tagsJson' =
                     IF outcome = "ok" /\ found
                     THEN updateTagsIndex(tagsJson, g, tags)
                     ELSE tagsJson
                /\ IF outcome = "ok"
                   THEN BgLog(g, "Tagged")
                   ELSE UNCHANGED bgLog
                /\ BgGo(g, "tags",
                        IF outcome = "ok" THEN AfterTags(g) ELSE "failed",
                        outcome = "ok")
  /\ UNCHANGED <<pidFile, decisionsMd, mistakesMd, gitNote>>
  /\ BgFrame

\* !skipKnowledge: read the session content, then appendDecision for every
\* decision that is not junk; inside the outer try only.
BgDecisions(g) ==
  /\ bg[g].pc = "decisions"
  /\ \E ok \in (IF completed[g].exists THEN BOOLEAN ELSE {FALSE}) :
       LET entries == KnowledgeEntries(bg[g].summary.decisions, g)
       IN  /\ decisionsMd' = IF ok THEN decisionsMd \o entries ELSE decisionsMd
           /\ IF ok /\ bg[g].summary.decisions # <<>>
              THEN BgLog(g, "Logged decision(s)")
              ELSE UNCHANGED bgLog
           /\ bg' = [bg EXCEPT
                       ![g].pc = IF ok THEN "mistakes" ELSE "failed",
                       ![g].content = IF completed[g].exists
                                      THEN completed[g] ELSE @,
                       ![g].ran = @ \cup {"decisions"},
                       ![g].raised = IF ok THEN @ ELSE @ \cup {"decisions"}]
  /\ UNCHANGED <<active, completed, pidFile, tagsJson, mistakesMd, gitNote>>
  /\ BgFrame

\* appendMistake for every mistake that is not junk; inside the outer try
\* only.
BgMistakes(g) ==
  /\ bg[g].pc = "mistakes"
  /\ \E ok \in BOOLEAN :
       LET entries == KnowledgeEntries(bg[g].summary.mistakes, g)
       IN  /\ mistakesMd' = IF ok THEN mistakesMd \o entries ELSE mistakesMd
           /\ IF ok /\ bg[g].summary.mistakes # <<>>
              THEN BgLog(g, "Logged mistake(s)")
              ELSE UNCHANGED bgLog
           /\ BgGo(g, "mistakes", IF ok THEN "autoMistake" ELSE "failed", ok)
  /\ UNCHANGED <<active, completed, pidFile, tagsJson, decisionsMd, gitNote>>
  /\ BgFrame

\* Auto-detected corrections over the content read for the decisions: one
\* appendMistake per file with two or more; inside the outer try only.
BgAutoMistake(g) ==
  /\ bg[g].pc = "autoMistake"
  /\ LET files == RepeatedFiles(bg[g].content)
     IN  IF files = {}
         THEN /\ BgGo(g, "autoMistake", "redact", TRUE)
              /\ UNCHANGED <<mistakesMd, bgLog>>
         ELSE \E ok \in BOOLEAN :
                /\ mistakesMd' =
                     IF ok
                     THEN Append(mistakesMd,
                                 [title |-> "Repeated modifications",
                                  session |-> g])
                     ELSE mistakesMd
                /\ IF ok
                   THEN BgLog(g, "Auto-detected correction pattern")
                   ELSE UNCHANGED bgLog
                /\ BgGo(g, "autoMistake",
                        IF ok THEN "redact" ELSE "failed", ok)
  /\ UNCHANGED <<active, completed, pidFile, tagsJson, decisionsMd, gitNote>>
  /\ BgFrame

\* 3. redactSecrets over the file, written back when it changed; own
\* try/catch.  secretlint's failure is caught inside redactSecrets and the
\* built-in patterns run either way.
BgRedact(g) ==
  /\ bg[g].pc = "redact"
  /\ \E ok \in (IF completed[g].exists THEN BOOLEAN ELSE {FALSE}) :
       LET redacted == redactWithBuiltinPatterns(completed[g])
       IN  /\ completed' = IF ok
                           THEN [completed EXCEPT ![g] = redacted]
                           ELSE completed
           /\ IF ~ok THEN BgLog(g, "Secret redaction failed")
              ELSE IF redacted # completed[g]
                   THEN BgLog(g, "Secret redaction applied")
                   ELSE UNCHANGED bgLog
           /\ BgGoCaught(g, "redact", "note", ok)
  /\ UNCHANGED <<active, pidFile, tagsJson, decisionsMd, mistakesMd, gitNote>>
  /\ BgFrame

\* checkpoint(repoRoot): the session whose completed transcript is handed to
\* addNoteFromFile, None when checkpoint returns before attaching. The id is
\* read from the current-id marker first and taken from
\* getMostRecentCompletedId only when the marker is missing or empty.
checkpoint ==
  LET sessionId == IF currentId # None THEN currentId
                   ELSE getMostRecentCompletedId
  IN  IF sessionId # None /\ completed[sessionId].exists THEN sessionId
      ELSE None

\* 4. checkpoint(repoRoot): the id of the current-id marker, else the most
\* recent completed id; the note is attached when that id has a completed
\* file (addNoteFromFile's own failure is swallowed); own try/catch.
BgNote(g) ==
  /\ bg[g].pc = "note"
  /\ \E ok \in BOOLEAN :
       LET sessionId == checkpoint
       IN  /\ IF ok /\ sessionId # None
              THEN gitNote' \in {gitNote, sessionId}
              ELSE UNCHANGED gitNote
           /\ BgLog(g, IF ok THEN "Git note attached to HEAD"
                       ELSE "Git note failed")
           /\ BgGoCaught(g, "note", "index", ok)
  /\ UNCHANGED <<active, completed, pidFile, tagsJson, decisionsMd, mistakesMd>>
  /\ BgFrame

\* 5. indexSession(repoRoot); own try/catch.
BgIndex(g) ==
  /\ bg[g].pc = "index"
  /\ \E outcome \in IndexOutcomes :
       /\ BgLog(g, CASE outcome = "complete" -> "QMD indexing complete"
                     [] outcome = "skipped" -> "QMD indexing skipped"
                     [] OTHER -> "QMD indexing failed")
       /\ BgGoCaught(g, "index", "sync", outcome # "failed")
  /\ UNCHANGED <<active, completed, pidFile, tagsJson, decisionsMd, mistakesMd,
                 gitNote>>
  /\ BgFrame

\* 6. pushShared(repoRoot); own try/catch.  Then the closing log line.
BgSync(g) ==
  /\ bg[g].pc = "sync"
  /\ \E ok \in BOOLEAN :
       /\ bgLog' = bgLog \cup
            {<<g, IF ok THEN "Shared knowledge synced"
                  ELSE "Shared knowledge sync failed">>,
             <<g, "Background finalization complete">>}
       /\ BgGoCaught(g, "sync", "cleanup", ok)
  /\ UNCHANGED <<active, completed, pidFile, tagsJson, decisionsMd, mistakesMd,
                 gitNote>>
  /\ BgFrame

\* The outer catch: one log line, nothing else of the try block runs.
BgOuterCatch(g) ==
  /\ bg[g].pc = "failed"
  /\ BgLog(g, "Background finalization failed")
  /\ bg' = [bg EXCEPT ![g].pc = "cleanup"]
  /\ UNCHANGED <<active, completed, pidFile, tagsJson, decisionsMd, mistakesMd,
                 gitNote>>
  /\ BgFrame

\* finally: the pid file is removed when it exists.
BgCleanup(g) ==
  /\ bg[g].pc = "cleanup"
  /\ pidFile' = FALSE
  /\ bg' = [bg EXCEPT ![g].pc = "exited", ![g].content = NoFile]
  /\ UNCHANGED <<active, completed, bgLog, tagsJson, decisionsMd, mistakesMd,
                 gitNote>>
  /\ BgFrame

BgStep(g) ==
  \/ BgStart(g)
  \/ BgSummarize(g)
  \/ BgAppendSummary(g)
  \/ BgMarkSkip(g)
  \/ BgTags(g)
  \/ BgDecisions(g)
  \/ BgMistakes(g)
  \/ BgAutoMistake(g)
  \/ BgRedact(g)
  \/ BgNote(g)
  \/ BgIndex(g)
  \/ BgSync(g)
  \/ BgOuterCatch(g)
  \/ BgCleanup(g)

(***************************************************************************)
(* Knowledge files (mistakes.md, decisions.md): parseKnowledgeEntries,     *)
(* formatKnowledgeEntry and the merge strategies.  A text is a sequence of *)
(* lines; a line is a heading "### v", a metadata comment "<!-- v -->", a  *)
(* legacy line "- v", a line of other text, or a blank line; v is the      *)
(* line's text as a sequence of tokens, the separators "|", ":" and ","    *)
(* being tokens of their own.                                              *)
(***************************************************************************)

Line(k, v) == [k |-> k, v |-> v]

\* The elements of a sequence.
SeqSetOf(xs) == {xs[i] : i \in 1..Len(xs)}

Blank == Line("b", << >>)

\* String.prototype.trim on a text: blank lines at both ends go.
RECURSIVE TrimLeft(_)
TrimLeft(t) ==
  IF t # << >> /\ Head(t).k = "b" THEN TrimLeft(Tail(t)) ELSE t

RECURSIVE TrimRight(_)
TrimRight(t) ==
  IF t # << >> /\ t[Len(t)].k = "b"
  THEN TrimRight(SubSeq(t, 1, Len(t) - 1)) ELSE t

Trim(t) == TrimRight(TrimLeft(t))

\* String.prototype.split on a separator token.
RECURSIVE SplitOn(_, _)
SplitOn(tokens, sep) ==
  IF \A i \in 1..Len(tokens) : tokens[i] # sep THEN <<tokens>>
  ELSE LET i == CHOOSE n \in 1..Len(tokens) :
                  tokens[n] = sep /\ \A m \in 1..(n - 1) : tokens[m] # sep
       IN  <<SubSeq(tokens, 1, i - 1)>>
             \o SplitOn(SubSeq(tokens, i + 1, Len(tokens)), sep)

\* Array.prototype.join with a separator token.
RECURSIVE JoinWith(_, _)
JoinWith(parts, sep) ==
  IF parts = << >> THEN << >>
  ELSE IF Len(parts) = 1 THEN parts[1]
  ELSE parts[1] \o <<sep>> \o JoinWith(Tail(parts), sep)

\* .filter(Boolean) on the pieces of a split.
RECURSIVE NonEmpty(_)
NonEmpty(parts) ==
  IF parts = << >> THEN << >>
  ELSE (IF Head(parts) = << >> THEN << >> ELSE <<Head(parts)>>)
         \o NonEmpty(Tail(parts))

Unknown == <<"unknown">>

General == <<"general">>

\* The entry parseKnowledgeEntries starts from.
BlankEntry ==
  [title |-> << >>, description |-> << >>, sessionId |-> Unknown,
   commitSha |-> << >>, files |-> << >>, area |-> General, date |-> << >>,
   tried |-> << >>, rule |-> << >>]

\* sessionId.slice(0, 10): a session id is written with its first ten
\* characters as its first token.
SliceDate(sessionId) ==
  IF sessionId = << >> THEN << >> ELSE <<Head(sessionId)>>

\* One pipe-delimited metadata field: const [key, ...valParts] =
\* field.split(":"); val = valParts.join(":"); switch (key).
ParseField(e, field) ==
  LET key == SplitOn(field, ":")[1]
      val == SubSeq(field, Len(key) + 2, Len(field))
  IN  CASE key = <<"session">> -> [e EXCEPT !.sessionId = val]
        [] key = <<"commit">> -> [e EXCEPT !.commitSha = val]
        [] key = <<"files">> -> [e EXCEPT !.files = NonEmpty(SplitOn(val, ","))]
        [] key = <<"area">> -> [e EXCEPT !.area = val]
        [] key = <<"tried">> -> [e EXCEPT !.tried = NonEmpty(SplitOn(val, ","))]
        [] key = <<"rule">> -> [e EXCEPT !.rule = val]
        [] key = <<"date">> -> [e EXCEPT !.date = val]
        [] OTHER -> e

RECURSIVE ParseFields(_, _)
ParseFields(e, fields) ==
  IF fields = << >> THEN e
  ELSE ParseFields(ParseField(e, Head(fields)), Tail(fields))

\* A part that starts with "### ": the title, the metadata of the first
\* comment, the description between the title line and that comment (all
\* lines after the title when there is no comment), the date derived from
\* the session id when the metadata gave none.
ParseStructured(part) ==
  LET metas == {i \in 1..Len(part) : part[i].k = "m"}
      at == IF metas = {} THEN Len(part) + 1
            ELSE CHOOSE i \in metas : \A j \in metas : i <= j
      e0 == [BlankEntry EXCEPT !.title = part[1].v,
                               !.description = Trim(SubSeq(part, 2, at - 1))]
      e1 == IF metas = {} THEN e0
            ELSE ParseFields(e0, SplitOn(part[at].v, "|"))
  IN  IF e1.date = << >> /\ e1.sessionId # Unknown
      THEN [e1 EXCEPT !.date = SliceDate(e1.sessionId)]
      ELSE e1

\* A part without heading: one entry per "- " line with text.
RECURSIVE ParseLegacy(_)
ParseLegacy(part) ==
  IF part = << >> THEN << >>
  ELSE (IF Head(part).k = "l" /\ Head(part).v # << >>
        THEN <<[BlankEntry EXCEPT !.title = Head(part).v]>>
        ELSE << >>) \o ParseLegacy(Tail(part))

\* content.split(/^(?=### )/m): a new part starts at every heading line.
RECURSIVE SplitParts(_)
SplitParts(t) ==
  IF t = << >> THEN << >>
  ELSE LET later == {i \in 2..Len(t) : t[i].k = "h"}
           stop == IF later = {} THEN Len(t) + 1
                   ELSE CHOOSE i \in later : \A j \in later : i <= j
       IN  <<SubSeq(t, 1, stop - 1)>>
             \o SplitParts(SubSeq(t, stop, Len(t)))

RECURSIVE ParseParts(_)
ParseParts(parts) ==
  IF parts = << >> THEN << >>
  ELSE LET trimmed == Trim(Head(parts))
       IN  (IF trimmed = << >> THEN << >>
            ELSE IF trimmed[1].k = "h" THEN <<ParseStructured(trimmed)>>
            ELSE ParseLegacy(trimmed)) \o ParseParts(Tail(parts))

parseKnowledgeEntries(content) == ParseParts(SplitParts(content))

\* formatKnowledgeEntry: the heading, the description when there is one,
\* and the comment holding the non-empty fields joined by " | ".
formatKnowledgeEntry(e) ==
  LET field(name, val) == <<name, ":">> \o val
      metaParts ==
        (IF e.sessionId # << >> THEN <<field("session", e.sessionId)>> ELSE << >>)
        \o (IF e.commitSha # << >> THEN <<field("commit", e.commitSha)>> ELSE << >>)
        \o (IF Len(e.files) > 0
            THEN <<field("files", JoinWith(e.files, ","))>> ELSE << >>)
        \o (IF e.area # << >> /\ e.area # General
            THEN <<field("area", e.area)>> ELSE << >>)
        \o (IF e.date # << >> THEN <<field("date", e.date)>> ELSE << >>)
        \o (IF Len(e.tried) > 0
            THEN <<field("tried", JoinWith(e.tried, ","))>> ELSE << >>)
        \o (IF e.rule # << >> THEN <<field("rule", e.rule)>> ELSE << >>)
  IN  <<Line("h", e.title)>> \o e.description
        \o <<Line("m", JoinWith(metaParts, "|"))>>

\* toLowerCase on the tokens used here.
Lower(token) == IF token = "Fix" THEN "fix" ELSE token

LowerText(tokens) == [i \in 1..Len(tokens) |-> Lower(tokens[i])]

\* The dedup key: title and description, lower-cased.
EntryKey(e) ==
  <<LowerText(e.title),
    [i \in 1..Len(e.description) |->
       Line(e.description[i].k, LowerText(e.description[i].v))]>>

RECURSIVE Dedup(_, _)
Dedup(entries, seen) ==
  IF entries = << >> THEN << >>
  ELSE IF EntryKey(Head(entries)) \in seen THEN Dedup(Tail(entries), seen)
       ELSE <<Head(entries)>>
              \o Dedup(Tail(entries), seen \cup {EntryKey(Head(entries))})

\* An entry that has a session id or files.
IsStructured(e) == e.sessionId # Unknown \/ Len(e.files) > 0

RECURSIVE FormatStructured(_)
FormatStructured(entries) ==
  IF entries = << >> THEN << >>
  ELSE (IF IsStructured(Head(entries))
        THEN formatKnowledgeEntry(Head(entries)) ELSE << >>)
         \o FormatStructured(Tail(entries))

\* The entries without session id and files, each written as the lines
\* made of its title by asLines.
RECURSIVE FormatLegacy(_, _)
FormatLegacy(entries, mistakes) ==
  IF entries = << >> THEN << >>
  ELSE (IF IsStructured(Head(entries)) THEN << >>
        ELSE IF mistakes THEN <<Line("l", Head(entries).title)>>
        ELSE <<Line("t", Head(entries).title), Blank>>)
         \o FormatLegacy(Tail(entries), mistakes)

\* Faulty variant: the local entries are dropped.
mergeMistakes_remoteOnly(remoteMd, localMd) ==
  LET merged == Dedup(parseKnowledgeEntries(remoteMd), {})
  IN  FormatStructured(merged) \o FormatLegacy(merged, TRUE)

\* mergeMistakes(remote, local): the entries of both sides, each key once,
\* the structured ones formatted, then the others as "- title" lines.
mergeMistakes(remoteMd, localMd) ==
  LET merged == Dedup(parseKnowledgeEntries(remoteMd)
                        \o parseKnowledgeEntries(localMd), {})
  IN  FormatStructured(merged) \o FormatLegacy(merged, TRUE)

\* text.split(/\n\n+/).map(trim).filter(Boolean): the runs of lines between
\* blank lines.
RECURSIVE SplitBlocks(_)
SplitBlocks(t) ==
  LET s == TrimLeft(t)
  IN  IF s = << >> THEN << >>
      ELSE LET blanks == {i \in 1..Len(s) : s[i].k = "b"}
               stop == IF blanks = {} THEN Len(s) + 1
                       ELSE CHOOSE i \in blanks : \A j \in blanks : i <= j
           IN  <<SubSeq(s, 1, stop - 1)>>
                 \o SplitBlocks(SubSeq(s, stop, Len(s)))

RECURSIVE DedupBlocks(_, _)
DedupBlocks(blocks, seen) ==
  IF blocks = << >> THEN << >>
  ELSE IF Head(blocks) \in seen THEN DedupBlocks(Tail(blocks), seen)
       ELSE <<Head(blocks)>>
              \o DedupBlocks(Tail(blocks), seen \cup {Head(blocks)})

\* merged.join("\n\n") followed by "\n".
RECURSIVE JoinBlocks(_)
JoinBlocks(blocks) ==
  IF blocks = << >> THEN << >>
  ELSE IF Len(blocks) = 1 THEN blocks[1]
  ELSE blocks[1] \o <<Blank>> \o JoinBlocks(Tail(blocks))

\* mergeDecisions(remote, local): block-based dedup when neither side has a
\* structured entry; otherwise as mergeMistakes, the entries without
\* session id and files written as their bare title and a blank line.
mergeDecisions(remoteMd, localMd) ==
  LET entries == parseKnowledgeEntries(remoteMd)
                   \o parseKnowledgeEntries(localMd)
      merged == Dedup(entries, {})
  IN  IF \A i \in 1..Len(entries) : ~IsStructured(entries[i])
      THEN JoinBlocks(DedupBlocks(SplitBlocks(remoteMd)
                                    \o SplitBlocks(localMd), {}))
      ELSE FormatStructured(merged) \o FormatLegacy(merged, FALSE)

(***************************************************************************)
(* Shared knowledge sync: initSharedBranch, pullShared, pushShared with    *)
(* writeSharedFiles, and syncKnowledge, one step per git command or file   *)
(* operation whose interleaving with other processes matters               *)
(***************************************************************************)

\* What no step of a sync operation touches: the session files, the hook
\* processes and the finalizer's state.
SyncFrame ==
  UNCHANGED <<fsVars, spawned, proc, launched, owner, sawLive, bgVars,
              pureVars>>

SGoto(r, label) == sp' = [sp EXCEPT ![r].pc = label]

\* branchExists(BRANCH, root): git rev-parse --verify refs/heads/BRANCH.
branchExists(c) == refs[c][BRANCH] # NoCommit

\* hasRemote(root): every clone has origin configured.
hasRemote(c) == c \in Clones

\* fetchBranch: git fetch origin BRANCH:BRANCH --no-tags.  The refspec is
\* not forced: the local ref is created or fast-forwarded, and the command
\* fails when origin has no such branch or the update is not a fast-forward.
fetchBranch(c) ==
  IF remote # NoCommit /\ IsAncestor(refs[c][BRANCH], remote)
  THEN [ok |-> TRUE, tip |-> remote]
  ELSE [ok |-> FALSE, tip |-> refs[c][BRANCH]]

\* pushBranch: git push origin BRANCH --no-verify.  Origin's branch is
\* created or fast-forwarded; the push is rejected otherwise.
pushBranch(c) ==
  IF refs[c][BRANCH] # NoCommit /\ IsAncestor(remote, refs[c][BRANCH])
  THEN refs[c][BRANCH]
  ELSE remote

\* readSharedFile(root, "mistakes.md"): git show BRANCH:mistakes.md, null
\* (has = FALSE) when the branch or the file is missing.
readSharedFile(c) ==
  IF branchExists(c) THEN TipTree(refs[c][BRANCH]) ELSE EmptyTree

\* shouldFetchRemote(root).  parseInt of text that is not a number gives NaN,
\* and Date.now() - NaN >= FETCH_INTERVAL_MS is false.
shouldFetchRemote(c) ==
  CASE lastSync[c] = Missing -> TRUE
    [] lastSync[c] = Unreadable -> TRUE
    [] lastSync[c] = NotANumber -> FALSE
    [] OTHER -> clock - lastSync[c] >= FETCH_INTERVAL_MS

\* Faulty variant: the commit is stored in the checked-out branch.
UpdatedRef_head(c) == head[c]

\* The ref that git update-ref is given: refs/heads/BRANCH.
UpdatedRef(c) == BRANCH

NetCall(r, call) ==
  netCalls' = netCalls \cup {[by |-> sp[r].by, call |-> call]}

Fetched(r, fn) ==
  fetchLog' = Append(fetchLog, [clone |-> sp[r].clone, at |-> clock, fn |-> fn])

\* Where the caller of pullShared goes on: syncKnowledge calls pushShared,
\* handleSessionStart assembles its context.
AfterPull(r) == IF sp[r].cmd = "sync" THEN "u_exists" ELSE "done"

\* Time passes.
Tick ==
  /\ clock < MaxClock
  /\ clock' = clock + 1
  /\ UNCHANGED <<refs, head, worktree, tmpIndex, localMistakes, lastSync,
                 remote, sp, syncs, netCalls, fetchLog, syncLog>>
  /\ SyncFrame

\* `ghost sync` in clone c: syncKnowledge, which starts with
\* initSharedBranch.
LaunchSync(r, c) ==
  /\ r \in SyncProcs
  /\ sp[r].pc = "idle"
  /\ \A q \in SyncProcs : sp[q].pc = "idle" => (r = q \/ r = "s1")
  /\ syncs < MaxSyncs
  /\ sp' = [sp EXCEPT ![r] =
              [IdleSync EXCEPT !.pc = "i_exists", !.clone = c, !.by = "sync",
                               !.cmd = "sync", !.ret = "p_exists"]]
  /\ syncs' = syncs + 1
  /\ syncLog' = Append(syncLog, [ev |-> "start", clone |-> c, fetched |-> FALSE])
  /\ UNCHANGED <<clock, refs, head, worktree, tmpIndex, localMistakes,
                 lastSync, remote, netCalls, fetchLog>>
  /\ SyncFrame

\* initSharedBranch: if (await branchExists(BRANCH, root)) return true;
\* then if (await hasRemote(root)).
InitExists(r) ==
  /\ sp[r].pc = "i_exists"
  /\ SGoto(r, IF branchExists(sp[r].clone) THEN sp[r].ret
              ELSE IF hasRemote(sp[r].clone) THEN "i_fetch" ELSE "i_orphan")
  /\ UNCHANGED <<clock, refs, head, worktree, tmpIndex, localMistakes,
                 lastSync, remote, syncs, netCalls, fetchLog, syncLog>>
  /\ SyncFrame

\* initSharedBranch: fetchBranch, then branchExists again.
InitFetch(r) ==
  /\ sp[r].pc = "i_fetch"
  /\ LET c == sp[r].clone
         f == fetchBranch(c)
     IN  /\ refs' = [refs EXCEPT ![c][BRANCH] = f.tip]
         /\ SGoto(r, IF f.ok /\ f.tip # NoCommit THEN sp[r].ret
                     ELSE "i_orphan")
  /\ NetCall(r, "fetch")
  /\ Fetched(r, "initSharedBranch")
  /\ UNCHANGED <<clock, head, worktree, tmpIndex, localMistakes, lastSync,
                 remote, syncs, syncLog>>
  /\ SyncFrame

\* initSharedBranch: git hash-object -t tree /dev/null, git commit-tree
\* without a parent, git update-ref refs/heads/BRANCH commit.
InitOrphan(r) ==
  /\ sp[r].pc = "i_orphan"
  /\ LET c == sp[r].clone
     IN  refs' = [refs EXCEPT ![c][UpdatedRef(c)] =
                    CommitTree(NoCommit, c, EmptyTree)]
  /\ SGoto(r, sp[r].ret)
  /\ UNCHANGED <<clock, head, worktree, tmpIndex, localMistakes, lastSync,
                 remote, syncs, netCalls, fetchLog, syncLog>>
  /\ SyncFrame

\* pullShared: if (!(await branchExists(BRANCH, root))) return.
PullExists(r) ==
  /\ sp[r].pc = "p_exists"
  /\ SGoto(r, IF branchExists(sp[r].clone) THEN "p_check" ELSE AfterPull(r))
  /\ UNCHANGED <<clock, refs, head, worktree, tmpIndex, localMistakes,
                 lastSync, remote, syncs, netCalls, fetchLog, syncLog>>
  /\ SyncFrame

\* pullShared: shouldFetchRemote(root) && (await hasRemote(root)).
PullCheck(r) ==
  /\ sp[r].pc = "p_check"
  /\ SGoto(r, IF shouldFetchRemote(sp[r].clone) /\ hasRemote(sp[r].clone)
              THEN "p_fetch" ELSE "p_merge")
  /\ UNCHANGED <<clock, refs, head, worktree, tmpIndex, localMistakes,
                 lastSync, remote, syncs, netCalls, fetchLog, syncLog>>
  /\ SyncFrame

\* pullShared: await fetchBranch(BRANCH, root); the result is not looked at.
PullFetch(r) ==
  /\ sp[r].pc = "p_fetch"
  /\ LET c == sp[r].clone
     IN  refs' = [refs EXCEPT ![c][BRANCH] = fetchBranch(c).tip]
  /\ sp' = [sp EXCEPT ![r].pc = "p_touch", ![r].fetched = TRUE]
  /\ NetCall(r, "fetch")
  /\ Fetched(r, "pullShared")
  /\ UNCHANGED <<clock, head, worktree, tmpIndex, localMistakes, lastSync,
                 remote, syncs, syncLog>>
  /\ SyncFrame

\* touchLastSync(root): writeFileSync(lastSyncPath, String(Date.now())).
PullTouch(r) ==
  /\ sp[r].pc = "p_touch"
  /\ lastSync' = [lastSync EXCEPT ![sp[r].clone] = clock]
  /\ SGoto(r, "p_merge")
  /\ UNCHANGED <<clock, refs, head, worktree, tmpIndex, localMistakes, remote,
                 syncs, netCalls, fetchLog, syncLog>>
  /\ SyncFrame

\* pullShared: the merge of the branch's mistakes.md into the local file,
\* written when the result is not empty and differs from the local text.
PullMerge(r) ==
  /\ sp[r].pc = "p_merge"
  /\ LET c == sp[r].clone
         blob == readSharedFile(c)
         merged == mergeMistakes(blob.md, localMistakes[c])
     IN  IF blob.has /\ merged # << >> /\ merged # localMistakes[c]
         THEN localMistakes' = [localMistakes EXCEPT ![c] = merged]
         ELSE UNCHANGED localMistakes
  /\ SGoto(r, AfterPull(r))
  /\ UNCHANGED <<clock, refs, head, worktree, tmpIndex, lastSync, remote,
                 syncs, netCalls, fetchLog, syncLog>>
  /\ SyncFrame

\* pushShared: if (!(await branchExists(BRANCH, root))) initSharedBranch.
PushExists(r) ==
  /\ sp[r].pc = "u_exists"
  /\ sp' = [sp EXCEPT ![r].pc = IF branchExists(sp[r].clone) THEN "u_merge"
                                ELSE "i_exists",
                      ![r].ret = "u_merge"]
  /\ UNCHANGED <<clock, refs, head, worktree, tmpIndex, localMistakes,
                 lastSync, remote, syncs, netCalls, fetchLog, syncLog>>
  /\ SyncFrame

\* pushShared: the local file merged with the branch's blob; a local file
\* that is missing or blank is skipped, and writeSharedFiles is called only
\* when there is a file to write.
PushMerge(r) ==
  /\ sp[r].pc = "u_merge"
  /\ LET c == sp[r].clone
     IN  IF localMistakes[c] = << >>
         THEN SGoto(r, "u_push")
         ELSE sp' = [sp EXCEPT
                       ![r].pc = "w_readTree",
                       ![r].files =
                         TreeOf(mergeMistakes(readSharedFile(c).md,
                                              localMistakes[c]))]
  /\ UNCHANGED <<clock, refs, head, worktree, tmpIndex, localMistakes,
                 lastSync, remote, syncs, netCalls, fetchLog, syncLog>>
  /\ SyncFrame

\* writeSharedFiles: git rev-parse BRANCH^{tree}; git read-tree under
\* GIT_INDEX_FILE = .git/ghost-tmp-index.
WriteReadTree(r) ==
  /\ sp[r].pc = "w_readTree"
  /\ LET c == sp[r].clone
     IN  IF branchExists(c)
         THEN tmpIndex' = [tmpIndex EXCEPT ![c] =
                             [exists |-> TRUE, tree |-> TipTree(refs[c][BRANCH])]]
         ELSE UNCHANGED tmpIndex
  /\ SGoto(r, "w_addFiles")
  /\ UNCHANGED <<clock, refs, head, worktree, localMistakes, lastSync, remote,
                 syncs, netCalls, fetchLog, syncLog>>
  /\ SyncFrame

\* writeSharedFiles: the content goes to .git/ghost-tmp-mistakes.md, git
\* hash-object -w, git update-index --add --cacheinfo under the temporary
\* index; the temporary file is unlinked.
WriteAddFiles(r) ==
  /\ sp[r].pc = "w_addFiles"
  /\ tmpIndex' = [tmpIndex EXCEPT ![sp[r].clone] =
                    [exists |-> TRUE, tree |-> TreeOf(sp[r].files.md)]]
  /\ SGoto(r, "w_writeTree")
  /\ UNCHANGED <<clock, refs, head, worktree, localMistakes, lastSync, remote,
                 syncs, netCalls, fetchLog, syncLog>>
  /\ SyncFrame

\* writeSharedFiles: git write-tree under the temporary index.
WriteTree(r) ==
  /\ sp[r].pc = "w_writeTree"
  /\ LET c == sp[r].clone
     IN  sp' = [sp EXCEPT ![r].pc = "w_parent",
                          ![r].tree = IF tmpIndex[c].exists
                                      THEN tmpIndex[c].tree ELSE EmptyTree]
  /\ UNCHANGED <<clock, refs, head, worktree, tmpIndex, localMistakes,
                 lastSync, remote, syncs, netCalls, fetchLog, syncLog>>
  /\ SyncFrame

\* writeSharedFiles: parent = git rev-parse BRANCH.
WriteParent(r) ==
  /\ sp[r].pc = "w_parent"
  /\ sp' = [sp EXCEPT ![r].pc = "w_updateRef",
                      ![r].parent = refs[sp[r].clone][BRANCH]]
  /\ UNCHANGED <<clock, refs, head, worktree, tmpIndex, localMistakes,
                 lastSync, remote, syncs, netCalls, fetchLog, syncLog>>
  /\ SyncFrame

\* writeSharedFiles: git commit-tree tree -p parent; git update-ref
\* refs/heads/BRANCH commit parent, which fails when the ref no longer
\* holds parent (the error is caught: return false).
WriteUpdateRef(r) ==
  /\ sp[r].pc = "w_updateRef"
  /\ LET c == sp[r].clone
         commit == CommitTree(sp[r].parent, c, sp[r].tree)
     IN  IF refs[c][UpdatedRef(c)] = sp[r].parent
         THEN refs' = [refs EXCEPT ![c][UpdatedRef(c)] = commit]
         ELSE UNCHANGED refs
  /\ SGoto(r, "w_unlink")
  /\ UNCHANGED <<clock, head, worktree, tmpIndex, localMistakes, lastSync,
                 remote, syncs, netCalls, fetchLog, syncLog>>
  /\ SyncFrame

\* writeSharedFiles: finally unlinkSync(tmpIndex).
WriteUnlink(r) ==
  /\ sp[r].pc = "w_unlink"
  /\ tmpIndex' = [tmpIndex EXCEPT ![sp[r].clone] =
                    [exists |-> FALSE, tree |-> EmptyTree]]
  /\ SGoto(r, "u_push")
  /\ UNCHANGED <<clock, refs, head, worktree, localMistakes, lastSync, remote,
                 syncs, netCalls, fetchLog, syncLog>>
  /\ SyncFrame

\* pushShared: if (await hasRemote(root)) await pushBranch(BRANCH, root).
\* syncKnowledge returns and the `ghost sync` process exits.
PushRemote(r) ==
  /\ sp[r].pc = "u_push"
  /\ LET c == sp[r].clone
     IN  /\ remote' = pushBranch(c)
         /\ syncLog' = Append(syncLog, [ev |-> "end", clone |-> c,
                                        fetched |-> sp[r].fetched])
  /\ sp' = [sp EXCEPT ![r] = IdleSync]
  /\ NetCall(r, "push")
  /\ UNCHANGED <<clock, refs, head, worktree, tmpIndex, localMistakes,
                 lastSync, syncs, fetchLog>>
  /\ SyncFrame

InitStep(r) == InitExists(r) \/ InitFetch(r) \/ InitOrphan(r)

PullStep(r) ==
  PullExists(r) \/ PullCheck(r) \/ PullFetch(r) \/ PullTouch(r) \/ PullMerge(r)

PushStep(r) ==
  \/ PushExists(r)
  \/ PushMerge(r)
  \/ WriteReadTree(r)
  \/ WriteAddFiles(r)
  \/ WriteTree(r)
  \/ WriteParent(r)
  \/ WriteUpdateRef(r)
  \/ WriteUnlink(r)
  \/ PushRemote(r)

(***************************************************************************)
(* SessionStart as the handler that pulls shared knowledge: createSession  *)
(* without an agent id, pullShared, then the read-only context assembly    *)
(***************************************************************************)

\* The hosting agent fires SessionStart and the handler is the one that
\* calls pullShared.
LaunchStartPull(p, agent) ==
  /\ proc[p].pc = "idle"
  /\ \A q \in Procs : proc[q].pc = "idle" => SlotOrder(p, q)
  /\ launched < MaxHooks
  /\ Cardinality(UsedIds) + Cardinality(Starting) < Cardinality(GhostIds)
  /\ proc' = [proc EXCEPT ![p] =
                [IdleProc EXCEPT !.pc = "s_create", !.kind = "startPull",
                                 !.agent = agent]]
  /\ launched' = launched + 1
  /\ UNCHANGED <<fsVars, spawned, owner>>
  /\ HookFrame

\* handleSessionStart: const { pullShared } = await import("./sync.js");
\* await pullShared(root).
HookPull(p) ==
  /\ proc[p].pc = "s_pull"
  /\ Goto(p, "s_pulling")
  /\ sp' = [sp EXCEPT ![p] =
              [IdleSync EXCEPT !.pc = "p_exists", !.clone = HookClone,
                               !.by = "session-start", !.cmd = "pull"]]
  /\ UNCHANGED <<fsVars, spawned, launched, owner, bgVars, pureVars>>
  /\ Track
  /\ UNCHANGED <<clock, refs, head, worktree, tmpIndex, localMistakes,
                 lastSync, remote, syncs, netCalls, fetchLog, syncLog>>

\* pullShared has returned; handleSessionStart then only reads, and returns
\* the context block.
HookPullReturn(p) ==
  /\ proc[p].pc = "s_pulling"
  /\ sp[p].pc = "done"
  /\ Finish(p, "returned")
  /\ sp' = [sp EXCEPT ![p] = IdleSync]
  /\ UNCHANGED <<fsVars, spawned, launched, owner, bgVars, pureVars>>
  /\ Track
  /\ UNCHANGED <<clock, refs, head, worktree, tmpIndex, localMistakes,
                 lastSync, remote, syncs, netCalls, fetchLog, syncLog>>

(***************************************************************************)
(* Specifications                                                          *)
(***************************************************************************)

Step(p) ==
  \/ CreateSessionFile(p)
  \/ WriteCurrentId(p)
  \/ RegisterRead(p)
  \/ RegisterWrite(p)
  \/ ResolveSessionPath(p)
  \/ CheckSessionFile(p)
  \/ AppendBlock(p)
  \/ DedupExists(p)
  \/ DedupRead(p)
  \/ CountResolve(p)
  \/ CountExists(p)
  \/ CountExists2(p)
  \/ CountRead(p)
  \/ AppendPromptBlock(p)
  \/ FinalizeResolve(p)
  \/ FinalizeExists(p)
  \/ FinalizeRead(p)
  \/ FinalizeWrite(p)
  \/ FinalizeRename(p)
  \/ UnregisterRead(p)
  \/ UnregisterWrite(p)
  \/ CurrentIdRead(p)
  \/ CurrentIdClear(p)
  \/ SpawnBackground(p)

\* Hook processes in any interleaving of their filesystem calls.
Next ==
  \/ \E p \in Procs, kind \in HookKinds, agent \in AgentIds :
       \E arg \in ArgsOf(kind) : Launch(p, kind, agent, arg)
  \/ \E p \in Procs : Step(p)

Spec == Init /\ [][Next]_vars

(***************************************************************************)
(* Two agent sessions, A and B, started one after the other in the same    *)
(* repository; then their Prompt, PostWrite, PostTask, Stop and SessionEnd *)
(* hooks in any interleaving.                                              *)
(***************************************************************************)

InitTwo ==
  /\ active = [g \in GhostIds |-> NewTranscript]
  /\ completed = [g \in GhostIds |-> NoFile]
  /\ sessionMap = [a \in AgentIds |-> IF a = "A" THEN "g1" ELSE "g2"]
  /\ owner = [g \in GhostIds |-> IF g = "g1" THEN "A" ELSE "B"]
  /\ currentId = "g2"
  /\ spawned = [g \in GhostIds |-> 0]
  /\ proc = [p \in Procs |-> IdleProc]
  /\ launched = 0
  /\ sawLive = [p \in Procs |-> FALSE]
  /\ BgInit
  /\ SyncInit
  /\ PureInit

NextTwo ==
  \/ \E p \in Procs, kind \in HookKinds \ {"start"}, agent \in AgentIds :
       \E arg \in ArgsOf(kind) : Launch(p, kind, agent, arg)
  \/ \E p \in Procs :
       \/ ResolveSessionPath(p)
       \/ CheckSessionFile(p)
       \/ AppendBlock(p)
       \/ DedupExists(p)
       \/ DedupRead(p)
       \/ CountResolve(p)
       \/ CountExists(p)
       \/ CountExists2(p)
       \/ CountRead(p)
       \/ AppendPromptBlock(p)
       \/ FinalizeResolve(p)
       \/ FinalizeExists(p)
       \/ FinalizeRead(p)
       \/ FinalizeWrite(p)
       \/ FinalizeRename(p)
       \/ UnregisterRead(p)
       \/ UnregisterWrite(p)
       \/ CurrentIdRead(p)
       \/ CurrentIdClear(p)
       \/ SpawnBackground(p)

SpecTwo == InitTwo /\ [][NextTwo]_vars

\* Hooks delivered one at a time: each hook process runs to its end before
\* the next one is launched.
NextSeq ==
  \/ \E kind \in HookKinds, agent \in AgentIds :
       \E arg \in ArgsOf(kind) : Launch("p1", kind, agent, arg)
  \/ Step("p1")

SpecSeq == Init /\ [][NextSeq]_vars

\* The hooks of the user's sessions together with the hooks that a
\* summarizer's hosting agent fires once a finalizer has been spawned.
NextChain ==
  \/ Next
  \/ \E p \in Procs, kind \in HookKinds, agent \in AgentIds :
       \E arg \in ArgsOf(kind) : LaunchInternal(p, kind, agent, arg)

SpecChain == Init /\ [][NextChain]_vars

(***************************************************************************)
(* A machine with neither the claude CLI nor qmd: one started session,     *)
(* SessionEnd hooks and the finalizer they spawn.  Every hook              *)
(* process and every finalizer that can take a step eventually takes one   *)
(* (the operating system schedules them); when the hosting agent fires     *)
(* SessionEnd is left open.  Without the claude CLI summarize returns      *)
(* null, so the extraction stages and the outer catch are never entered    *)
(* and are left out of the next-state relation.                            *)
(***************************************************************************)

InitAbsent ==
  /\ active = [g \in GhostIds |->
                 IF g = "g1"
                 THEN [NewTranscript EXCEPT
                         !.body = <<ModifiedBlock("/repo/src/auth.ts", "A"),
                                    TaskBlock("token", "A")>>]
                 ELSE NoFile]
  /\ completed = [g \in GhostIds |-> NoFile]
  /\ sessionMap = [a \in AgentIds |-> IF a = "A" THEN "g1" ELSE None]
  /\ owner = [g \in GhostIds |-> IF g = "g1" THEN "A" ELSE None]
  /\ currentId = "g1"
  /\ spawned = [g \in GhostIds |-> 0]
  /\ proc = [p \in Procs |-> IdleProc]
  /\ launched = 0
  /\ sawLive = [p \in Procs |-> FALSE]
  /\ bg = [g \in GhostIds |-> BgOff]
  /\ pidFile = FALSE
  /\ bgLog = {}
  /\ tagsJson = NoTagsFile
  /\ decisionsMd = <<>>
  /\ mistakesMd = <<>>
  /\ gitNote = None
  /\ installed = {}
  /\ SyncInit
  /\ PureInit

EndStep(p) ==
  \/ FinalizeResolve(p)
  \/ FinalizeExists(p)
  \/ FinalizeRead(p)
  \/ FinalizeWrite(p)
  \/ FinalizeRename(p)
  \/ UnregisterRead(p)
  \/ UnregisterWrite(p)
  \/ CurrentIdRead(p)
  \/ CurrentIdClear(p)
  \/ SpawnBackground(p)

BgStepAbsent(g) ==
  \/ BgExec(g)
  \/ BgStart(g)
  \/ BgSummarize(g)
  \/ BgRedact(g)
  \/ BgNote(g)
  \/ BgIndex(g)
  \/ BgSync(g)
  \/ BgCleanup(g)

NextAbsent ==
  \/ \E p \in Procs, agent \in AgentIds : Launch(p, "end", agent, "")
  \/ \E p \in Procs : EndStep(p)
  \/ \E g \in GhostIds : BgStepAbsent(g)

SpecAbsent ==
  /\ InitAbsent
  /\ [][NextAbsent]_vars
  /\ \A p \in Procs : WF_vars(EndStep(p))
  /\ \A g \in GhostIds : WF_vars(BgStepAbsent(g))

(***************************************************************************)
(* The finalizers alone: SessionEnd has finished for g1 and spawned its    *)
(* finalizer; g2 is absent, live, or finalized with a finalizer of its     *)
(* own.                                                                    *)
(***************************************************************************)

\* What finalizeSession leaves in completed/ for a transcript of agent a.
FinalizedTranscripts(a) ==
  LET M == ModifiedBlock("/repo/src/auth.ts", a)
      D == TurnBlock(a)
      T == RedactBlock(TaskBlock("token", a))
  IN  { [exists |-> TRUE, keys |-> NewFrontmatter \cup {"ended"},
         tags |-> <<>>, body |-> b] :
        b \in { <<PromptBlock(1, "fix", a), M, D>>,
                <<M, D, M, T, D, M, D>> } }

BgSpawned == [BgOff EXCEPT !.pc = "start"]

InitBg ==
  /\ proc = [p \in Procs |-> IdleProc]
  /\ launched = 0
  /\ sawLive = [p \in Procs |-> FALSE]
  /\ pidFile = FALSE
  /\ bgLog = {}
  /\ tagsJson = NoTagsFile
  /\ decisionsMd = <<>>
  /\ mistakesMd = <<>>
  /\ gitNote = None
  /\ installed \in SUBSET Tools
  /\ SyncInit
  /\ PureInit
  /\ \E t1 \in FinalizedTranscripts("A"), other \in {"absent", "live", "finalized"} :
       /\ completed = [g \in GhostIds |->
                         IF g = "g1" THEN t1
                         ELSE IF other = "finalized"
                              THEN CHOOSE t \in FinalizedTranscripts("B") :
                                     Len(t.body) = 3
                              ELSE NoFile]
       /\ active = [g \in GhostIds |->
                      IF g = "g2" /\ other = "live" THEN NewTranscript
                      ELSE NoFile]
       /\ sessionMap = [a \in AgentIds |->
                          IF a = "B" /\ other = "live" THEN "g2" ELSE None]
       /\ currentId = IF other = "live" THEN "g2" ELSE None
       /\ owner = [g \in GhostIds |->
                     IF g = "g1" THEN "A"
                     ELSE IF other = "absent" THEN None ELSE "B"]
       /\ spawned = [g \in GhostIds |->
                       IF g = "g1" \/ other = "finalized" THEN 1 ELSE 0]
       /\ bg = [g \in GhostIds |->
                  IF g = "g1" \/ other = "finalized" THEN BgSpawned ELSE BgOff]

NextBg == \E g \in GhostIds : BgStep(g)

SpecBg == InitBg /\ [][NextBg]_vars

(***************************************************************************)
(* `ghost sync` run in the two clones, in any interleaving, as time passes *)
(***************************************************************************)

SyncStep(r) == InitStep(r) \/ PullStep(r) \/ PushStep(r)

NextSync ==
  \/ Tick
  \/ \E r \in SyncProcs, c \in Clones : LaunchSync(r, c)
  \/ \E r \in SyncProcs : SyncStep(r)

SpecSync == Init /\ [][NextSync]_vars

(***************************************************************************)
(* The hooks of a repository whose clone already has the knowledge branch, *)
(* with SessionStart handled by either handler                             *)
(***************************************************************************)

\* Clone cB has synced its entry b; clone cA fetched the branch when it held
\* only the root commit, and has no .last-sync.
InitPull ==
  /\ HookInit
  /\ BgInit
  /\ clock = 0
  /\ refs = [c \in Clones |->
               [r \in RefNames |->
                  IF r = MainRef THEN MainCommit
                  ELSE IF c = "cB"
                       THEN CommitTree(CommitTree(NoCommit, "cB", EmptyTree),
                                       "cB", TreeOf(MistakeB))
                       ELSE CommitTree(NoCommit, "cB", EmptyTree)]]
  /\ head = [c \in Clones |-> MainRef]
  /\ worktree = [c \in Clones |-> {"README.md"}]
  /\ tmpIndex = [c \in Clones |-> [exists |-> FALSE, tree |-> EmptyTree]]
  /\ localMistakes = [c \in Clones |-> IF c = "cA" THEN MistakeA ELSE MistakeB]
  /\ lastSync = [c \in Clones |-> Missing]
  /\ remote = CommitTree(CommitTree(NoCommit, "cB", EmptyTree), "cB",
                         TreeOf(MistakeB))
  /\ sp = [r \in Runners |-> IdleSync]
  /\ syncs = 0
  /\ netCalls = {}
  /\ fetchLog = << >>
  /\ syncLog = << >>
  /\ PureInit

NextPull ==
  \/ Next
  \/ \E p \in Procs, agent \in AgentIds : LaunchStartPull(p, agent)
  \/ \E p \in Procs : HookPull(p) \/ PullStep(p) \/ HookPullReturn(p)

SpecPull == InitPull /\ [][NextPull]_vars

(***************************************************************************)
(* SessionStart hooks of the pulling handler, in any interleaving, as time *)
(* passes: each one runs pullShared in the same clone                      *)
(***************************************************************************)

NextRace ==
  \/ Tick
  \/ \E p \in Procs, agent \in AgentIds : LaunchStartPull(p, agent)
  \/ \E p \in Procs :
       \/ CreateSessionFile(p)
       \/ WriteCurrentId(p)
       \/ HookPull(p)
       \/ PullStep(p)
       \/ HookPullReturn(p)

SpecRace == InitPull /\ [][NextRace]_vars

(***************************************************************************)
(* Pure functions: the function is applied once to an input drawn from a   *)
(* bounded set                                                             *)
(***************************************************************************)

PureFrame ==
  UNCHANGED <<fsVars, spawned, proc, launched, owner, sawLive, bgVars,
              syncVars, input, branchTags, settingsJson, comodCache, tmpFiles,
                 writer>>

InitPure(inputs) ==
  /\ HookInit
  /\ BgInit
  /\ SyncInit
  /\ input \in inputs
  /\ result = NotRun
  /\ branchTags = NoTagsFile
  /\ settingsJson = NoSettings
  /\ comodCache = NoCache
  /\ tmpFiles = NoTmpFiles
  /\ writer = WritersIdle

\* A knowledge file holds at most MaxChunks pieces.
MaxChunks == 2

SessionA == <<"2025-01-15", "-a1b2">>

\* An entry as appendMistake and appendDecision receive it from the
\* finalizer.
StructuredEntry ==
  [BlankEntry EXCEPT !.title = <<"fix">>,
                     !.description = <<Line("t", <<"use", "cache">>)>>,
                     !.sessionId = SessionA,
                     !.date = <<"2025-01-15">>]

\* The pieces of a knowledge file: legacy lines, a formatted entry, a
\* heading with a description and no metadata comment.
Chunks ==
  {<<Line("l", <<"cache">>)>>,
   <<Line("l", <<"Fix">>)>>,
   formatKnowledgeEntry(StructuredEntry),
   <<Line("h", <<"cache">>), Line("t", <<"stale">>)>>}

RECURSIVE TextsOf(_)
TextsOf(n) ==
  IF n = 0 THEN {<< >>}
  ELSE LET shorter == TextsOf(n - 1)
       IN  shorter \cup {t \o c : t \in shorter, c \in Chunks}

MergeInputs ==
  [file : {"mistakes.md", "decisions.md"},
   a : TextsOf(MaxChunks), b : TextsOf(MaxChunks), done : {TRUE}]

\* mergeKnowledge on one file: the remote text a, the local text b.
MergeMistakesCall ==
  /\ ~result.done
  /\ input.file = "mistakes.md"
  /\ result' = [done |-> TRUE, text |-> mergeMistakes(input.a, input.b)]
  /\ PureFrame

MergeDecisionsCall ==
  /\ ~result.done
  /\ input.file = "decisions.md"
  /\ result' = [done |-> TRUE, text |-> mergeDecisions(input.a, input.b)]
  /\ PureFrame

NextMerge == MergeMistakesCall \/ MergeDecisionsCall

SpecMerge == InitPure(MergeInputs) /\ [][NextMerge]_vars

\* The entries given to formatKnowledgeEntry: every field empty or set, a
\* tried item and a rule with and without the separators of the metadata
\* comment.
EntryInputs ==
  [title : {<<"fix">>},
   description : {<< >>, <<Line("t", <<"use", "cache">>)>>},
   sessionId : {SessionA, Unknown},
   commitSha : {<< >>, <<"abc123">>},
   files : {<< >>, <<<<"src/a.ts">>>>, <<<<"src/a.ts">>, <<"src/b.ts">>>>},
   area : {General, <<"sync">>},
   date : {<< >>, <<"2025-01-15">>, <<"2025-02-01">>},
   tried : {<< >>, <<<<"mock">>>>, <<<<"mock">>, <<"patch">>>>,
            <<<<"mock", ",", "patch">>>>},
   rule : {<< >>, <<"always", "mock">>, <<"mock", "|", "patch">>},
   done : {TRUE}]

EntryOf(in) == [f \in DOMAIN in \ {"done"} |-> in[f]]

\* appendMistake / appendDecision: the entry is formatted into the file.
FormatCall ==
  /\ DOMAIN result = {"done"}
  /\ result' = [done |-> FALSE, text |-> formatKnowledgeEntry(EntryOf(input))]
  /\ PureFrame

\* A later reader parses the file.
ParseCall ==
  /\ ~result.done
  /\ DOMAIN result # {"done"}
  /\ result' = [done |-> TRUE, text |-> result.text,
                entries |-> parseKnowledgeEntries(result.text)]
  /\ PureFrame

NextRoundTrip == FormatCall \/ ParseCall

SpecRoundTrip == InitPure(EntryInputs) /\ [][NextRoundTrip]_vars

(***************************************************************************)
(* mergeTags applied to two tags.json texts                                *)
(***************************************************************************)

\* An array of a tags.json text holds at most MaxIds session ids.
MaxIds == 2

TagNames == {"bug", "perf"}

TagIds == {"s1", "s2"}

RECURSIVE IdArrays(_)
IdArrays(n) ==
  IF n = 0 THEN {<< >>}
  ELSE LET shorter == IdArrays(n - 1)
       IN  shorter \cup {Append(ids, id) : ids \in shorter, id \in TagIds}

TagValues == {JsonArray(ids) : ids \in IdArrays(MaxIds)} \cup {NotAnArray}

TagTexts ==
  {InvalidJson, JsonNull, JsonObject(<< >>)}
    \cup {JsonObject(<<<<t, v>>>>) : t \in TagNames, v \in TagValues}
    \cup {JsonObject(<<<<"bug", v>>, <<"perf", w>>>>) :
            v \in TagValues, w \in TagValues}
    \cup {JsonObject(<<<<"perf", v>>, <<"bug", w>>>>) :
            v \in {JsonArray(<<"s1">>)}, w \in TagValues}

TagInputs == [a : TagTexts, b : TagTexts, done : {TRUE}]

\* mergeKnowledge on tags.json: the remote text a, the local text b.
MergeTagsCall ==
  /\ DOMAIN result = {"done"}
  /\ LET merged == mergeTags(input.a, input.b)
     IN  result' = [done |-> merged = TypeError, text |-> merged]
  /\ PureFrame

\* The next pull merges the same remote text into the merged file.
MergeTagsAgain ==
  /\ ~result.done
  /\ DOMAIN result # {"done"}
  /\ result' = [done |-> TRUE, text |-> result.text,
                again |-> mergeTags(input.a, result.text)]
  /\ PureFrame

NextTags == MergeTagsCall \/ MergeTagsAgain

SpecTags == InitPure(TagInputs) /\ [][NextTags]_vars

(***************************************************************************)
(* The built-in redaction patterns on a text.  A text is a sequence of     *)
(* tokens: "://", ":", "/", "@host", whitespace " ", a short word, the     *)
(* keyword with its sign "token=", "Bearer", an AWS access key "AKIA", a   *)
(* secret of 20 letters and digits, a base64 secret of 20 characters that  *)
(* holds a "/", and the replacement "****".  The patterns modelled are the *)
(* fixed-format ones (by aws-access-key), bearer-token, url-credentials    *)
(* and generic-secret, applied in the order of BUILTIN_PATTERNS.           *)
(***************************************************************************)

REDACTED == "****"

\* Number of characters of a token.
TokLen(t) ==
  CASE t \in {"AKIA", "secret", "b64"} -> 20
    [] t \in {"token=", "Bearer"} -> 6
    [] t \in {"word", "****"} -> 4
    [] t = "@host" -> 5
    [] t = "://" -> 3
    [] OTHER -> 1

\* Tokens made only of [A-Za-z0-9/+=\-_.], the value class of
\* generic-secret.
GenericClass == {"word", "secret", "b64", "AKIA", "Bearer", "token=", "/"}

\* Tokens made only of [A-Za-z0-9\-_.~+/], the class of bearer-token.
BearerClass == {"word", "secret", "b64", "AKIA", "Bearer", "/"}

\* Tokens without ":", "/" and whitespace: [^:/\s].
UserClass == {"word", "secret", "AKIA", "Bearer", "token=", "@host", "****"}

\* The length of the longest run of tokens of a class from position i.
RECURSIVE RunLen(_, _, _)
RunLen(t, i, class) ==
  IF i <= Len(t) /\ t[i] \in class THEN 1 + RunLen(t, i + 1, class) ELSE 0

RECURSIVE Chars(_)
Chars(t) == IF t = << >> THEN 0 ELSE TokLen(Head(t)) + Chars(Tail(t))

\* /AKIA[0-9A-Z]{16}/g and the other fixed-format patterns: the key
\* becomes ****.
RedactFixed(t) ==
  [i \in 1..Len(t) |-> IF t[i] = "AKIA" THEN REDACTED ELSE t[i]]

\* /(Bearer\s+)[A-Za-z0-9\-_.~+/]+=*/g with $1****: whitespace after
\* "Bearer", then the longest run of the class, a "token=" after the run
\* being taken whole (its letters are of the class, its sign is matched
\* by =*).
RECURSIVE RedactBearer(_)
RedactBearer(t) ==
  IF t = << >> THEN << >>
  ELSE IF Head(t) # "Bearer" THEN <<Head(t)>> \o RedactBearer(Tail(t))
  ELSE LET spaces == RunLen(t, 2, {" "})
           run == RunLen(t, 2 + spaces, BearerClass)
           stop == 2 + spaces + run
           taken == IF stop <= Len(t) /\ t[stop] = "token="
                    THEN run + 1 ELSE run
       IN  IF spaces = 0 \/ taken = 0
           THEN <<Head(t)>> \o RedactBearer(Tail(t))
           ELSE SubSeq(t, 1, 1 + spaces) \o <<REDACTED>>
                  \o RedactBearer(SubSeq(t, 2 + spaces + taken, Len(t)))

\* /(:\/\/[^:/\s]+:)([^\s]+)(@[A-Za-z0-9.-]+)/g with $1****$3: after
\* "://" a user part up to the next ":", then the password, which runs to
\* the last "@host" before the next whitespace.
RECURSIVE RedactUrl(_)
RedactUrl(t) ==
  IF t = << >> THEN << >>
  ELSE IF Head(t) # "://" THEN <<Head(t)>> \o RedactUrl(Tail(t))
  ELSE LET user == RunLen(t, 2, UserClass)
           colon == 2 + user
           run == RunLen(t, colon + 1, GenericClass \cup UserClass
                                         \cup {"://", ":"})
           hosts == {m \in (colon + 2)..(colon + run) : t[m] = "@host"}
       IN  IF user = 0 \/ colon > Len(t) \/ t[colon] # ":" \/ hosts = {}
           THEN <<Head(t)>> \o RedactUrl(Tail(t))
           ELSE LET at == CHOOSE m \in hosts : \A n \in hosts : n <= m
                IN  SubSeq(t, 1, colon) \o <<REDACTED, "@host">>
                      \o RedactUrl(SubSeq(t, at + 1, Len(t)))

\* /((?:api[_-]?key|...|token|...)\s*[=:]\s*["']?)[A-Za-z0-9/+=\-_.]{20,}/gi
\* with $1****: after the keyword and its sign, whitespace, then a run of
\* the class of 20 characters or more.
RECURSIVE RedactGeneric(_)
RedactGeneric(t) ==
  IF t = << >> THEN << >>
  ELSE IF Head(t) # "token=" THEN <<Head(t)>> \o RedactGeneric(Tail(t))
  ELSE LET spaces == RunLen(t, 2, {" "})
           run == RunLen(t, 2 + spaces, GenericClass)
       IN  IF Chars(SubSeq(t, 2 + spaces, 1 + spaces + run)) < 20
           THEN <<Head(t)>> \o RedactGeneric(Tail(t))
           ELSE SubSeq(t, 1, 1 + spaces) \o <<REDACTED>>
                  \o RedactGeneric(SubSeq(t, 2 + spaces + run, Len(t)))

\* redactWithBuiltinPatterns on a text: each pattern in turn over the
\* result of the previous one.
RedactPatterns(t) == RedactGeneric(RedactUrl(RedactBearer(RedactFixed(t))))

\* redactSecrets: secretlint, whose findings become ****, then the
\* built-in patterns; found is what secretlint reports (nothing when it
\* fails or is not installed).
redactSecrets(t, found) ==
  RedactPatterns([i \in 1..Len(t) |-> IF t[i] \in found THEN REDACTED ELSE t[i]])

\* A text holds at most MaxPieces pieces.
MaxPieces == 3

Pieces ==
  {<<"://">>, <<"token=", "b64">>, <<"token=", "secret">>,
   <<":", "word", "@host">>, <<"word">>, <<" ">>, <<"AKIA">>,
   <<"Bearer", " ", "word">>}

RECURSIVE PlainTexts(_)
PlainTexts(n) ==
  IF n = 0 THEN {<< >>}
  ELSE LET shorter == PlainTexts(n - 1)
       IN  shorter \cup {t \o p : t \in shorter, p \in Pieces}

RedactInputs == [text : PlainTexts(MaxPieces), done : {TRUE}]

\* finalizeSession: the fast pass over the transcript.
RedactOnce ==
  /\ DOMAIN result = {"done"}
  /\ result' = [done |-> FALSE, once |-> RedactPatterns(input.text)]
  /\ PureFrame

\* The finalizer's deep pass over the redacted transcript.
RedactTwice ==
  /\ ~result.done
  /\ DOMAIN result # {"done"}
  /\ \E found \in {{}, {"AKIA"}} :
       result' = [done |-> TRUE, once |-> result.once,
                  twice |-> redactSecrets(result.once, found)]
  /\ PureFrame

NextRedact == RedactOnce \/ RedactTwice

SpecRedact == InitPure(RedactInputs) /\ [][NextRedact]_vars

(***************************************************************************)
(* Relevance scoring: getRelevantEntries.  An entry is given by what the   *)
(* score reads: its files, its area, its date (the days elapsed since it,  *)
(* a multiple of ten so that the recency term is an integer) and whether   *)
(* it has a rule.  The result is the sequence of the positions of the      *)
(* returned entries in the list given.                                     *)
(***************************************************************************)

\* The list given holds at most MaxEntries entries.
MaxEntries == 3

NoDate == [set |-> FALSE, days |-> 0]

DaysAgo(n) == [set |-> TRUE, days |-> n]

Scored(files, area, date, rule) ==
  [files |-> files, area |-> area, date |-> date, rule |-> rule]

\* b.date.localeCompare(a.date) < 0: the date of a is the later one; an
\* empty date is before every date.
Later(a, b) == a.date.set /\ (~b.date.set \/ a.date.days < b.date.days)

\* Number of positions of a sequence whose element is in a set.
RECURSIVE CountIn(_, _)
CountIn(xs, set) ==
  IF xs = << >> THEN 0
  ELSE (IF Head(xs) \in set THEN 1 ELSE 0) + CountIn(Tail(xs), set)

\* The score before the staleness probe.
BaseScore(e, in) ==
  10 * CountIn(e.files, SeqSetOf(in.relevantFiles))
    + 5 * CountIn(e.files, SeqSetOf(in.coModFiles))
    + (IF e.area # "general" /\ e.area = in.area THEN 5 ELSE 0)
    + (IF e.date.set /\ e.date.days < 30
       THEN (3 * (30 - e.date.days)) \div 30 ELSE 0)
    + (IF Len(e.files) = 0 THEN 1 ELSE 0)
    + (IF e.rule THEN 20 ELSE 0)

\* Array.prototype.sort with the comparator "score descending, then date
\* descending" (before = 1) or "date descending" (before = 0): stable.
RECURSIVE InsertInto(_, _, _, _, _)
InsertInto(sorted, x, es, score, byScore) ==
  IF sorted = << >> THEN <<x>>
  ELSE LET y == Head(sorted)
           first == IF byScore /\ score[x] # score[y] THEN score[x] > score[y]
                    ELSE Later(es[x], es[y])
       IN  IF first THEN <<x>> \o sorted
           ELSE <<y>> \o InsertInto(Tail(sorted), x, es, score, byScore)

RECURSIVE SortIdx(_, _, _, _)
SortIdx(idxs, es, score, byScore) ==
  IF idxs = << >> THEN << >>
  ELSE InsertInto(SortIdx(SubSeq(idxs, 1, Len(idxs) - 1), es, score, byScore),
                  idxs[Len(idxs)], es, score, byScore)

\* The staleness probe on one entry: git log reports more than ten commits
\* since the entry's date for one of its first three files.
ProbedStale(e, in) ==
  /\ Len(e.files) > 0
  /\ e.date.set
  /\ \E i \in 1..Len(e.files) : i <= 3 /\ e.files[i] \in in.busyFiles

Min(a, b) == IF a < b THEN a ELSE b

\* The positions probed: the first 2 * max of the first ranking.
Probed(in) ==
  LET es == in.entries
      score == [i \in 1..Len(es) |-> BaseScore(es[i], in)]
      first == SortIdx([i \in 1..Len(es) |-> i], es, score, TRUE)
  IN  {first[i] : i \in 1..Min(Len(es), in.max * 2)}

\* The score after the staleness probe.
FinalScore(in) ==
  LET probed == Probed(in)
  IN  [i \in 1..Len(in.entries) |->
         BaseScore(in.entries[i], in)
           - (IF i \in probed /\ ProbedStale(in.entries[i], in)
              THEN 5 ELSE 0)]

RECURSIVE FilterIdx(_, _)
FilterIdx(idxs, keep) ==
  IF idxs = << >> THEN << >>
  ELSE (IF Head(idxs) \in keep THEN <<Head(idxs)>> ELSE << >>)
         \o FilterIdx(Tail(idxs), keep)

FirstN(xs, n) == SubSeq(xs, 1, Min(Len(xs), n))

\* Faulty variant: the entries without positive score are not filtered out.
getRelevantEntries_unfiltered(in) ==
  LET es == in.entries
      score == FinalScore(in)
  IN  FirstN(SortIdx([i \in 1..Len(es) |-> i], es, score, TRUE), in.max)

\* getRelevantEntries(entries, relevantFiles, coModFiles, max).
getRelevantEntries(in) ==
  LET es == in.entries
      all == [i \in 1..Len(es) |-> i]
      score == FinalScore(in)
      first == SortIdx(all, es, [i \in 1..Len(es) |-> BaseScore(es[i], in)],
                       TRUE)
      resorted == SortIdx(first, es, score, TRUE)
      positive == {i \in 1..Len(es) : score[i] > 0}
  IN  IF positive = {}
      THEN FirstN(SortIdx(FilterIdx(all, {i \in 1..Len(es) : es[i].date.set}),
                          es, score, FALSE), in.max)
      ELSE FirstN(FilterIdx(resorted, positive), in.max)

EntryKinds ==
  {Scored(<< >>, "general", NoDate, FALSE),
   Scored(<<"z.ts">>, "general", DaysAgo(60), FALSE),
   Scored(<<"z.ts">>, "general", DaysAgo(0), FALSE),
   Scored(<<"a.ts">>, "general", DaysAgo(30), FALSE),
   Scored(<<"n.ts", "z.ts">>, "general", DaysAgo(10), FALSE),
   Scored(<<"z.ts">>, "general", NoDate, TRUE),
   Scored(<<"z.ts">>, "sync", DaysAgo(30), FALSE),
   Scored(<<"a.ts", "b.ts">>, "sync", DaysAgo(0), FALSE)}

RECURSIVE EntryLists(_)
EntryLists(n) ==
  IF n = 0 THEN {<< >>}
  ELSE LET shorter == EntryLists(n - 1)
       IN  shorter \cup {Append(es, e) : es \in shorter, e \in EntryKinds}

ScoreInputs ==
  [entries : EntryLists(MaxEntries),
   relevantFiles : {<<"a.ts", "b.ts">>},
   coModFiles : {<<"n.ts">>},
   area : {"general", "sync"},
   busyFiles : {{}, {"z.ts"}, {"a.ts", "z.ts"}},
   max : {1, 2},
   done : {TRUE}]

GetRelevantEntriesCall ==
  /\ ~result.done
  /\ result' = [done |-> TRUE, out |-> getRelevantEntries(input)]
  /\ PureFrame

NextScore == GetRelevantEntriesCall

SpecScore == InitPure(ScoreInputs) /\ [][NextScore]_vars

(***************************************************************************)
(* Co-modification graph query: getCoModifiedFiles                         *)
(***************************************************************************)

\* An adjacency list holds at most MaxNeighbours paths.
MaxNeighbours == 2

Paths == {"a.ts", "b.ts", "c.ts", "d.ts"}

\* Lexicographic order of the paths.
PathBefore(p, q) ==
  LET rank == [x \in Paths |->
                 CASE x = "a.ts" -> 1 [] x = "b.ts" -> 2
                   [] x = "c.ts" -> 3 [] OTHER -> 4]
  IN  rank[p] < rank[q]

\* counts[n] = (counts[n] || 0) + 1 on an object whose keys keep the order
\* of their first insertion.
Bump(counts, n) ==
  IF \E i \in 1..Len(counts) : counts[i][1] = n
  THEN [i \in 1..Len(counts) |->
          IF counts[i][1] = n THEN <<n, counts[i][2] + 1>> ELSE counts[i]]
  ELSE Append(counts, <<n, 1>>)

RECURSIVE CountNeighbours(_, _, _)
CountNeighbours(counts, neighbours, fileSet) ==
  IF neighbours = << >> THEN counts
  ELSE CountNeighbours(IF Head(neighbours) \in fileSet THEN counts
                       ELSE Bump(counts, Head(neighbours)),
                       Tail(neighbours), fileSet)

RECURSIVE CountAll(_, _, _, _)
CountAll(counts, graph, files, fileSet) ==
  IF files = << >> THEN counts
  ELSE CountAll(IF Head(files) \in DOMAIN graph
                THEN CountNeighbours(counts, graph[Head(files)], fileSet)
                ELSE counts,
                graph, Tail(files), fileSet)

\* .sort(([, a], [, b]) => b - a): by count descending, stable.
RECURSIVE InsertByCount(_, _)
InsertByCount(sorted, x) ==
  IF sorted = << >> THEN <<x>>
  ELSE IF x[2] > Head(sorted)[2] THEN <<x>> \o sorted
  ELSE <<Head(sorted)>> \o InsertByCount(Tail(sorted), x)

RECURSIVE SortByCount(_)
SortByCount(counts) ==
  IF counts = << >> THEN << >>
  ELSE InsertByCount(SortByCount(SubSeq(counts, 1, Len(counts) - 1)),
                     counts[Len(counts)])

\* getCoModifiedFiles(graph, files, limit).
getCoModifiedFiles(graph, files, limit) ==
  LET counts == CountAll(<< >>, graph, files, SeqSetOf(files))
      top == FirstN(SortByCount(counts), limit)
  IN  [i \in 1..Len(top) |-> top[i][1]]

RECURSIVE Adjacency(_, _)
Adjacency(n, of) ==
  IF n = 0 THEN {<< >>}
  ELSE LET shorter == Adjacency(n - 1, of)
       IN  shorter \cup {Append(ns, p) : ns \in shorter,
                                         p \in Paths \ {of}}

\* The graphs buildCoModGraph makes for the vertices asked about: no path
\* twice in a list, a.ts next to b.ts exactly when b.ts is next to a.ts.
Graphs ==
  {g \in [{"a.ts", "b.ts"} -> Adjacency(MaxNeighbours, "a.ts")
                                 \cup Adjacency(MaxNeighbours, "b.ts")] :
     /\ \A f \in DOMAIN g : f \notin SeqSetOf(g[f])
     /\ \A f \in DOMAIN g : \A i, j \in 1..Len(g[f]) :
          g[f][i] = g[f][j] => i = j
     /\ ("b.ts" \in SeqSetOf(g["a.ts"])) <=> ("a.ts" \in SeqSetOf(g["b.ts"]))}

CoModInputs ==
  [graph : Graphs,
   files : {<<"a.ts">>, <<"b.ts">>, <<"a.ts", "b.ts">>, <<"b.ts", "a.ts">>,
            <<"c.ts">>},
   limit : {1, 2},
   done : {TRUE}]

GetCoModifiedFilesCall ==
  /\ ~result.done
  /\ result' = [done |-> TRUE,
                out |-> getCoModifiedFiles(input.graph, input.files,
                                           input.limit)]
  /\ PureFrame

NextCoMod == GetCoModifiedFilesCall

SpecCoMod == InitPure(CoModInputs) /\ [][NextCoMod]_vars

(***************************************************************************)
(* Tagging: `ghost tag` calls addTags on the session files and tags.json   *)
(* of one clone, one call at a time                                        *)
(***************************************************************************)

\* A call of addTags names at most MaxTagArgs tags.
MaxTagArgs == 2

CliTags == {"bug", "perf"}

RECURSIVE TagArgs(_)
TagArgs(n) ==
  IF n = 0 THEN {<< >>}
  ELSE LET shorter == TagArgs(n - 1)
       IN  shorter \cup {Append(ts, t) : ts \in shorter, t \in CliTags}

\* Session g1 is finalized; session g2 is live, finalized or has no file.
InitTagging ==
  /\ BgInit
  /\ SyncInit
  /\ PureInit
  /\ proc = [p \in Procs |-> IdleProc]
  /\ launched = 0
  /\ sawLive = [p \in Procs |-> FALSE]
  /\ spawned = [g \in GhostIds |-> 0]
  /\ \E other \in {"absent", "live", "finalized"} :
       /\ completed = [g \in GhostIds |->
                         IF g = "g1" \/ other = "finalized"
                         THEN [NewTranscript EXCEPT
                                 !.keys = @ \cup {"ended"}]
                         ELSE NoFile]
       /\ active = [g \in GhostIds |->
                      IF g = "g2" /\ other = "live" THEN NewTranscript
                      ELSE NoFile]
       /\ sessionMap = [a \in AgentIds |->
                          IF a = "B" /\ other = "live" THEN "g2" ELSE None]
       /\ currentId = IF other = "live" THEN "g2" ELSE None
       /\ owner = [g \in GhostIds |->
                     IF g = "g1" THEN "A"
                     ELSE IF other = "absent" THEN None ELSE "B"]

\* addTags(repoRoot, sessionId, tags): the completed file, else the active
\* one, else nothing; the tags merged into the frontmatter, then
\* updateTagsIndex.  The call is kept in input.
AddTagsCall(g, tags) ==
  /\ tags # << >>
  /\ input' = [done |-> TRUE, id |-> g, tags |-> tags]
  /\ IF completed[g].exists
     THEN /\ completed' = [completed EXCEPT ![g].tags = MergeTags(@, tags),
                                            ![g].keys = @ \cup {"tags"}]
          /\ tagsJson' = updateTagsIndex(tagsJson, g, tags)
          /\ UNCHANGED active
     ELSE IF active[g].exists
     THEN /\ active' = [active EXCEPT ![g].tags = MergeTags(@, tags),
                                      ![g].keys = @ \cup {"tags"}]
          /\ tagsJson' = updateTagsIndex(tagsJson, g, tags)
          /\ UNCHANGED completed
     ELSE UNCHANGED <<active, completed, tagsJson>>
  /\ UNCHANGED <<sessionMap, currentId, spawned, proc, launched, owner,
                 sawLive, bg, pidFile, bgLog, decisionsMd, mistakesMd,
                 gitNote, installed, syncVars, result, branchTags,
                 settingsJson, comodCache, tmpFiles,
                 writer>>

NextTagging ==
  \E g \in GhostIds, tags \in TagArgs(MaxTagArgs) : AddTagsCall(g, tags)

SpecTagging == InitTagging /\ [][NextTagging]_vars

(***************************************************************************)
(* Tagging and sync in one clone: addTags (called by `ghost tag` and by    *)
(* the finalizer's tagging step), pullShared and pushShared on tags.json,  *)
(* one operation at a time.  The remote branch holds the index another     *)
(* developer pushed; session files are local to a clone (.ai-sessions/ is  *)
(* in .gitignore).                                                         *)
(***************************************************************************)

\* tags.json as pushed by another clone: its session r1 is tagged bug.
RemoteTags == JsonObject(<<<<"bug", JsonArray(<<"r1">>)>>>>)

\* pullShared on tags.json: the fetch when the rate limit allows (the
\* branch is created from the remote one by initSharedBranch or moved to
\* it), then the merge of the branch's file into the local one, written
\* when it differs.
PullTagsFiles(fetch) ==
  LET branch == IF fetch /\ branchTags = NoTagsFile THEN RemoteTags
                ELSE branchTags
      merged == mergeTags(branch, tagsJson)
  IN  /\ branchTags' = branch
      /\ tagsJson' = IF branch = NoTagsFile THEN tagsJson ELSE merged

PullTags(fetch) ==
  /\ PullTagsFiles(fetch)
  /\ input' = [done |-> TRUE, id |-> None, tags |-> << >>]
  /\ UNCHANGED <<active, completed, sessionMap, currentId, spawned, proc,
                 launched, owner, sawLive, bg, pidFile, bgLog, decisionsMd,
                 mistakesMd, gitNote, installed, syncVars, result,
                 settingsJson, comodCache, tmpFiles,
                 writer>>

\* pushShared on tags.json: a non-empty local file is merged with the
\* branch's and committed to the branch.
PushTags ==
  /\ tagsJson # NoTagsFile
  /\ branchTags' = mergeTags(branchTags, tagsJson)
  /\ input' = [done |-> TRUE, id |-> None, tags |-> << >>]
  /\ UNCHANGED <<fsVars, spawned, proc, launched, owner, sawLive, bgVars,
                 syncVars, result, settingsJson, comodCache, tmpFiles,
                 writer>>

NextTagSync ==
  \/ \E g \in GhostIds, tags \in TagArgs(1) : AddTagsCall(g, tags)
  \/ \E fetch \in BOOLEAN : PullTags(fetch)
  \/ PushTags

SpecTagSync == InitTagging /\ [][NextTagSync]_vars

(***************************************************************************)
(* Setup: `ghost enable` and `ghost disable` on .claude/settings.json.  A  *)
(* settings file is absent, not JSON, or an object: whether it holds       *)
(* customSetting, whether it holds hooks, and the matchers of each event   *)
(* key of hooks.  A command is the sequence of its words.                  *)
(***************************************************************************)

\* An event key of a settings file given holds at most MaxMatchers
\* matchers.
MaxMatchers == 2

Hook(command) == [type |-> "command", command |-> command]

Matcher(matcher, commands) ==
  [matcher |-> matcher,
   hooks |-> [i \in 1..Len(commands) |-> Hook(commands[i])]]

GhostEvents ==
  {"SessionStart", "SessionEnd", "UserPromptSubmit", "Stop", "PostToolUse"}

GHOST_HOOKS ==
  [e \in GhostEvents |->
     CASE e = "SessionStart" -> <<Matcher("", <<<<"ghost", "session-start">>>>)>>
       [] e = "SessionEnd" -> <<Matcher("", <<<<"ghost", "session-end">>>>)>>
       [] e = "UserPromptSubmit" -> <<Matcher("", <<<<"ghost", "prompt">>>>)>>
       [] e = "Stop" -> <<Matcher("", <<<<"ghost", "stop">>>>)>>
       [] OTHER -> <<Matcher("Write|Edit", <<<<"ghost", "post-write">>>>),
                     Matcher("Task", <<<<"ghost", "post-task">>>>)>>]

\* h.command?.startsWith("ghost ")
IsGhostHook(h) == Len(h.command) >= 2 /\ Head(h.command) = "ghost"

\* m.hooks?.some((h) => h.command?.startsWith("ghost "))
HasGhostHook(m) == \E i \in 1..Len(m.hooks) : IsGhostHook(m.hooks[i])

NotGhostMatcher(m) == ~HasGhostHook(m)

NotGhostHook(h) == ~IsGhostHook(h)

HasHooks(m) == Len(m.hooks) > 0

NoEvents == [e \in {} |-> << >>]

EmptySettings ==
  [kind |-> "object", custom |-> FALSE, hasHooks |-> FALSE, hooks |-> NoEvents]

\* readSettings: {} when the file is missing or not JSON.
readSettings(file) == IF file.kind = "object" THEN file ELSE EmptySettings

\* Faulty variant: the ghost matchers are added to what is there.
mergeHooks_append(settings, ghostHooks) ==
  LET old == IF settings.hasHooks THEN settings.hooks ELSE NoEvents
  IN  [settings EXCEPT
         !.hasHooks = TRUE,
         !.hooks = [e \in DOMAIN old \cup DOMAIN ghostHooks |->
                      IF e \notin DOMAIN ghostHooks THEN old[e]
                      ELSE IF e \notin DOMAIN old THEN ghostHooks[e]
                      ELSE old[e] \o ghostHooks[e]]]

\* mergeHooks(settings, ghostHooks): an event key without value gets the
\* ghost matchers; otherwise the matchers holding a ghost hook are dropped
\* and the ghost matchers added after the others.
mergeHooks(settings, ghostHooks) ==
  LET old == IF settings.hasHooks THEN settings.hooks ELSE NoEvents
  IN  [settings EXCEPT
         !.hasHooks = TRUE,
         !.hooks = [e \in DOMAIN old \cup DOMAIN ghostHooks |->
                      IF e \notin DOMAIN ghostHooks THEN old[e]
                      ELSE IF e \notin DOMAIN old THEN ghostHooks[e]
                      ELSE SelectSeq(old[e], NotGhostMatcher) \o ghostHooks[e]]]

\* Faulty variant: a matcher that holds a ghost hook is removed whole.
removeGhostHooks_wholeMatcher(settings) ==
  IF ~settings.hasHooks THEN settings
  ELSE LET filtered == [e \in DOMAIN settings.hooks |->
                          SelectSeq(settings.hooks[e], NotGhostMatcher)]
           left == {e \in DOMAIN filtered : Len(filtered[e]) > 0}
       IN  [settings EXCEPT !.hasHooks = left # {},
                            !.hooks = [e \in left |-> filtered[e]]]

\* disable, on the settings read: in every matcher the hooks whose command
\* starts with "ghost " are removed, then the matchers without hooks, the
\* event keys without matchers and an empty hooks object.
removeGhostHooks(settings) ==
  IF ~settings.hasHooks THEN settings
  ELSE LET strip(m) == [m EXCEPT !.hooks = SelectSeq(m.hooks, NotGhostHook)]
           filtered == [e \in DOMAIN settings.hooks |->
                          SelectSeq([i \in 1..Len(settings.hooks[e]) |->
                                  strip(settings.hooks[e][i])], HasHooks)]
           left == {e \in DOMAIN filtered : Len(filtered[e]) > 0}
       IN  [settings EXCEPT !.hasHooks = left # {},
                            !.hooks = [e \in left |-> filtered[e]]]

\* The matchers a user's settings file holds: own hooks, a hook of an
\* older ghost, an own hook next to a ghost hook in one matcher, a matcher
\* without hooks, a command whose name only begins like the binary's.
UserMatchers ==
  {Matcher("Bash", <<<<"lint">>>>),
   Matcher("", <<<<"ghost", "old-command">>>>),
   Matcher("", <<<<"ghost", "session-start">>, <<"notify", "me">>>>),
   Matcher("x", << >>),
   Matcher("Edit", <<<<"ghost-lint", "run">>>>)}

RECURSIVE MatcherLists(_)
MatcherLists(n) ==
  IF n = 0 THEN {<< >>}
  ELSE LET shorter == MatcherLists(n - 1)
       IN  shorter \cup {Append(ms, m) : ms \in shorter, m \in UserMatchers}

SettingsFiles ==
  {NoSettings, [kind |-> "invalid"]}
    \cup {[kind |-> "object", custom |-> c, hasHooks |-> FALSE,
           hooks |-> NoEvents] : c \in BOOLEAN}
    \cup {[kind |-> "object", custom |-> c, hasHooks |-> TRUE,
           hooks |-> [e \in keys |->
                        CASE e = "SessionStart" -> start
                          [] e = "PostToolUse" -> GHOST_HOOKS[e]
                          [] OTHER -> <<Matcher("Bash", <<<<"lint">>>>)>>]] :
            c \in BOOLEAN, start \in MatcherLists(MaxMatchers),
            keys \in {{"SessionStart"}, {"SessionStart", "PreToolUse"},
                      {"SessionStart", "PostToolUse"}}}

\* enable: the hooks merged into the settings read and the file written;
\* at its end initSharedBranch and pullShared, skipped when they fail.  The
\* directories, .gitignore, .mcp.json, CLAUDE.md and the post-commit hook
\* it also writes are not part of the state.
Enable ==
  /\ settingsJson' = mergeHooks(readSettings(settingsJson), GHOST_HOOKS)
  /\ input' = [done |-> TRUE, op |-> "enable"]
  /\ \/ \E fetch \in BOOLEAN : PullTagsFiles(fetch)
     \/ UNCHANGED <<tagsJson, branchTags>>
  /\ UNCHANGED <<active, completed, sessionMap, currentId, spawned, proc,
                 launched, owner, sawLive, bg, pidFile, bgLog, decisionsMd,
                 mistakesMd, gitNote, installed, syncVars, result,
                 comodCache, tmpFiles,
                 writer>>

\* disable: nothing without settings file; otherwise the ghost hooks
\* removed from the settings read and the file written (.mcp.json and
\* CLAUDE.md, which it also rewrites, are not part of the state).
Disable ==
  /\ settingsJson.kind # "absent"
  /\ settingsJson' = removeGhostHooks(readSettings(settingsJson))
  /\ input' = [done |-> TRUE, op |-> "disable"]
  /\ UNCHANGED <<fsVars, spawned, proc, launched, owner, sawLive, bgVars,
                 syncVars, result, branchTags, comodCache, tmpFiles,
                 writer>>

\* The user edits the settings file.
EditSettings ==
  /\ input = NotRun
  /\ settingsJson' \in SettingsFiles \ {NoSettings}
  /\ input' = [done |-> TRUE, op |-> "edit"]
  /\ UNCHANGED <<fsVars, spawned, proc, launched, owner, sawLive, bgVars,
                 syncVars, result, branchTags, comodCache, tmpFiles,
                 writer>>

NextSetup == Enable \/ Disable \/ EditSettings

SpecSetup == InitTagging /\ [][NextSetup]_vars

(***************************************************************************)
(* Co-modification graph: buildCoModGraph and its cache, next to the       *)
(* hooks and the Background Finalizer of one session whose transcript      *)
(* holds two files modified in one turn                                    *)
(***************************************************************************)

OtherPath == "src/db.ts"

GraphPaths == {NormalizePath(f) : f \in FilePaths} \cup {OtherPath}

\* [...turn.matchAll(/^- Modified: (.+)$/gm)] and new Set(files): the
\* files of a turn, each once, in the order of their first line.
UniqueModified(turn) ==
  LET ms == SelectSeq(turn, LAMBDA b : b.k = "M")
  IN  DedupSeq([i \in 1..Len(ms) |-> ms[i].t], {})

\* pairCounts[a][b] and pairCounts[b][a] incremented.
AddPair(pairCounts, a, b) ==
  [pairCounts EXCEPT ![a] = Bump(@, b), ![b] = Bump(@, a)]

\* for i, for j > i over the unique files of one turn.
RECURSIVE AddTurn(_, _, _, _)
AddTurn(pairCounts, unique, i, j) ==
  IF i >= Len(unique) THEN pairCounts
  ELSE IF j > Len(unique) THEN AddTurn(pairCounts, unique, i + 1, i + 2)
  ELSE AddTurn(AddPair(pairCounts, unique[i], unique[j]), unique, i, j + 1)

RECURSIVE AddTurns(_, _)
AddTurns(pairCounts, turns) ==
  IF turns = << >> THEN pairCounts
  ELSE AddTurns(AddTurn(pairCounts, UniqueModified(Head(turns)), 1, 2),
                Tail(turns))

\* readdirSync(compDir): the completed transcripts, by file name.
SessionFiles(comp) ==
  (IF comp["g1"].exists THEN <<"g1">> ELSE << >>)
    \o (IF comp["g2"].exists THEN <<"g2">> ELSE << >>)

RECURSIVE AddSessions(_, _, _)
AddSessions(pairCounts, comp, files) ==
  IF files = << >> THEN pairCounts
  ELSE AddSessions(AddTurns(pairCounts, SplitTurns(comp[Head(files)].body)),
                   comp, Tail(files))

\* The graph built from the completed transcripts: per file that has a
\* neighbour, its neighbours by count descending.
GraphOf(comp) ==
  LET pairCounts == AddSessions([f \in GraphPaths |-> << >>], comp,
                                SessionFiles(comp))
      vertices == {f \in GraphPaths : pairCounts[f] # << >>}
  IN  [f \in vertices |->
         LET sorted == SortByCount(pairCounts[f])
         IN  [i \in 1..Len(sorted) |-> sorted[i][1]]]

\* cached.sessionCount === sessionFiles.length, on a cache file that parses.
UseCache(cache, sessionFiles) ==
  cache.kind = "ok" /\ cache.sessionCount = Len(sessionFiles)

\* buildCoModGraph, called by a process of its own (the MCP server, a CLI
\* command, the context assembly of a SessionStart): the cached graph, or
\* the graph built and the cache written.  input records the completed
\* transcripts the call found.
BuildCoModGraphCall ==
  LET sessionFiles == SessionFiles(completed)
      graph == GraphOf(completed)
  IN  /\ input' = [done |-> TRUE, completed |-> completed]
      /\ IF UseCache(comodCache, sessionFiles)
         THEN /\ result' = [done |-> TRUE, cached |-> TRUE,
                            graph |-> comodCache.graph]
              /\ UNCHANGED comodCache
         ELSE /\ result' = [done |-> TRUE, cached |-> FALSE, graph |-> graph]
              /\ comodCache' = [kind |-> "ok",
                                sessionCount |-> Len(sessionFiles),
                                graph |-> graph]
      /\ UNCHANGED <<fsVars, spawned, proc, launched, owner, sawLive, bgVars,
                     syncVars, branchTags, settingsJson, tmpFiles, writer>>

\* Session A is started and its transcript holds two files modified in
\* one turn; the cache file is missing or does not parse; tools are the
\* external tools installed.
InitGraphWith(tools) ==
  /\ active = [g \in GhostIds |->
                 IF g = "g1"
                 THEN [NewTranscript EXCEPT
                         !.body = <<ModifiedBlock("/repo/src/auth.ts", "A"),
                                    ModifiedBlock(OtherPath, "A")>>]
                 ELSE NoFile]
  /\ completed = [g \in GhostIds |-> NoFile]
  /\ sessionMap = [a \in AgentIds |-> IF a = "A" THEN "g1" ELSE None]
  /\ owner = [g \in GhostIds |-> IF g = "g1" THEN "A" ELSE None]
  /\ currentId = "g1"
  /\ spawned = [g \in GhostIds |-> 0]
  /\ proc = [p \in Procs |-> IdleProc]
  /\ launched = 0
  /\ sawLive = [p \in Procs |-> FALSE]
  /\ bg = [g \in GhostIds |-> BgOff]
  /\ pidFile = FALSE
  /\ bgLog = {}
  /\ tagsJson = NoTagsFile
  /\ decisionsMd = <<>>
  /\ mistakesMd = <<>>
  /\ gitNote = None
  /\ installed = tools
  /\ SyncInit
  /\ input = NotRun
  /\ result = NotRun
  /\ branchTags = NoTagsFile
  /\ settingsJson = NoSettings
  /\ comodCache \in {NoCache, [kind |-> "corrupt"]}
  /\ tmpFiles = NoTmpFiles
  /\ writer = WritersIdle

\* PostWrite and SessionEnd hooks of session A in any interleaving, the
\* finalizers they spawn (neither external tool is installed), and calls
\* of buildCoModGraph at any moment.
NextGraph ==
  \/ \E p \in Procs, kind \in {"write", "end"} :
       \E arg \in ArgsOf(kind) : Launch(p, kind, "A", arg)
  \/ \E p \in Procs :
       \/ ResolveSessionPath(p)
       \/ CheckSessionFile(p)
       \/ AppendBlock(p)
       \/ FinalizeResolve(p)
       \/ FinalizeExists(p)
       \/ FinalizeRead(p)
       \/ FinalizeWrite(p)
       \/ FinalizeRename(p)
       \/ UnregisterRead(p)
       \/ UnregisterWrite(p)
       \/ CurrentIdRead(p)
       \/ CurrentIdClear(p)
       \/ SpawnBackground(p)
  \/ BgStepAbsent("g1")
  \/ BuildCoModGraphCall

SpecGraph == InitGraphWith({}) /\ [][NextGraph]_vars

\* The hooks delivered one at a time, with both tools installed.
NextGraphSeq ==
  \/ \E kind \in {"write", "end"} :
       \E arg \in ArgsOf(kind) : Launch("p1", kind, "A", arg)
  \/ ResolveSessionPath("p1")
  \/ CheckSessionFile("p1")
  \/ AppendBlock("p1")
  \/ FinalizeResolve("p1")
  \/ FinalizeExists("p1")
  \/ FinalizeRead("p1")
  \/ FinalizeWrite("p1")
  \/ FinalizeRename("p1")
  \/ UnregisterRead("p1")
  \/ UnregisterWrite("p1")
  \/ CurrentIdRead("p1")
  \/ CurrentIdClear("p1")
  \/ SpawnBackground("p1")
  \/ BgExec("g1")
  \/ BgStep("g1")
  \/ BuildCoModGraphCall

SpecGraphSeq == InitGraphWith(Tools) /\ [][NextGraphSeq]_vars

(***************************************************************************)
(* writeSharedFiles called by two processes of one clone at once.  The     *)
(* tree of a commit is here the content of each file it holds; the         *)
(* temporary index and the blob staging files are paths of the clone, so   *)
(* the callers share them.  One step per git command or file call.         *)
(***************************************************************************)

\* A file of the `files` argument.
FileArg(name, content) == [name |-> name, content |-> content]

\* The tree without any file.
NoFiles == [n \in SharedNames |-> Absent]

\* The tree of the branch before the calls.
BaseTree == [NoFiles EXCEPT !["knowledge.md"] = "k0", !["mistakes.md"] = "m0"]

BaseCommit == CommitTree(NoCommit, "origin", BaseTree)

\* The `files` arguments of the two calls.
WriterFiles(w) ==
  IF w = "w1"
  THEN {<<FileArg("mistakes.md", "m1")>>}
  ELSE {<<FileArg("decisions.md", "d2")>>,
        <<FileArg("mistakes.md", "m2")>>,
        <<FileArg("mistakes.md", "m2"), FileArg("decisions.md", "d2")>>}

\* The tree with the files written over it, in order.
RECURSIVE Overlay(_, _)
Overlay(tree, files) ==
  IF files = << >> THEN tree
  ELSE Overlay([tree EXCEPT ![Head(files).name] = Head(files).content],
               Tail(files))

WGoto(w, label) == writer' = [writer EXCEPT ![w].pc = label]

WriterFrame ==
  UNCHANGED <<fsVars, spawned, proc, launched, owner, sawLive, bgVars,
              clock, head, worktree, localMistakes, lastSync, remote, sp,
              syncs, netCalls, fetchLog, syncLog, input, result, branchTags,
              settingsJson, comodCache>>

\* A process calls writeSharedFiles(root, files).
WriterCall(w) ==
  /\ writer[w].pc = "idle"
  /\ \E files \in WriterFiles(w) :
       writer' = [writer EXCEPT ![w] =
                    [WriterIdle EXCEPT !.pc = "revParseTree",
                                       !.files = files, !.todo = files]]
  /\ UNCHANGED <<refs, tmpIndex, tmpFiles>>
  /\ WriterFrame

\* git rev-parse BRANCH^{tree}; a throw is swallowed and the index is left
\* as it is.
WriterRevParseTree(w) ==
  /\ writer[w].pc = "revParseTree"
  /\ LET tip == refs[HookClone][BRANCH]
     IN  writer' = [writer EXCEPT
                      ![w].tree = IF tip = NoCommit THEN Absent ELSE TipTree(tip),
                      ![w].pc = IF tip = NoCommit THEN "writeFile" ELSE "readTree"]
  /\ UNCHANGED <<refs, tmpIndex, tmpFiles>>
  /\ WriterFrame

\* git read-tree treeish, with GIT_INDEX_FILE = .git/ghost-tmp-index.
WriterReadTree(w) ==
  /\ writer[w].pc = "readTree"
  /\ tmpIndex' = [tmpIndex EXCEPT ![HookClone] =
                    [exists |-> TRUE, tree |-> writer[w].tree]]
  /\ WGoto(w, "writeFile")
  /\ UNCHANGED <<refs, tmpFiles>>
  /\ WriterFrame

\* writeFileSync(tmpFile, content) for the next file, or the loop ends.
WriterWriteFile(w) ==
  /\ writer[w].pc = "writeFile"
  /\ IF writer[w].todo = << >>
     THEN /\ WGoto(w, "writeTree")
          /\ UNCHANGED tmpFiles
     ELSE /\ tmpFiles' = [tmpFiles EXCEPT ![Head(writer[w].todo).name] =
                            Head(writer[w].todo).content]
          /\ WGoto(w, "hashObject")
  /\ UNCHANGED <<refs, tmpIndex>>
  /\ WriterFrame

\* git hash-object -w -- tmpFile: the blob of what the file holds now; with
\* the file gone the command throws, the function returns false.
WriterHashObject(w) ==
  /\ writer[w].pc = "hashObject"
  /\ LET found == tmpFiles[Head(writer[w].todo).name]
     IN  IF found = Absent
         THEN writer' = [writer EXCEPT ![w].ret = "false",
                                       ![w].pc = "unlinkIndex"]
         ELSE writer' = [writer EXCEPT ![w].blob = found,
                                       ![w].pc = "updateIndex"]
  /\ UNCHANGED <<refs, tmpIndex, tmpFiles>>
  /\ WriterFrame

\* git update-index --add --cacheinfo 100644,blob,filename; git makes the
\* index when the file is missing.
WriterUpdateIndex(w) ==
  /\ writer[w].pc = "updateIndex"
  /\ LET held == IF tmpIndex[HookClone].exists
                 THEN tmpIndex[HookClone].tree ELSE NoFiles
     IN  tmpIndex' = [tmpIndex EXCEPT ![HookClone] =
                        [exists |-> TRUE,
                         tree |-> [held EXCEPT ![Head(writer[w].todo).name] =
                                     writer[w].blob]]]
  /\ WGoto(w, "unlinkFile")
  /\ UNCHANGED <<refs, tmpFiles>>
  /\ WriterFrame

\* finally unlinkSync(tmpFile), a throw ignored.
WriterUnlinkFile(w) ==
  /\ writer[w].pc = "unlinkFile"
  /\ tmpFiles' = [tmpFiles EXCEPT ![Head(writer[w].todo).name] = Absent]
  /\ writer' = [writer EXCEPT ![w].todo = Tail(writer[w].todo),
                              ![w].pc = "writeFile"]
  /\ UNCHANGED <<refs, tmpIndex>>
  /\ WriterFrame

\* git write-tree: the tree of the index; of no file when the index file is
\* missing.
WriterWriteTree(w) ==
  /\ writer[w].pc = "writeTree"
  /\ writer' = [writer EXCEPT
                  ![w].tree = IF tmpIndex[HookClone].exists
                              THEN tmpIndex[HookClone].tree ELSE NoFiles,
                  ![w].pc = "revParse"]
  /\ UNCHANGED <<refs, tmpIndex, tmpFiles>>
  /\ WriterFrame

\* git rev-parse BRANCH: the parent; a throw when the branch is missing.
WriterRevParse(w) ==
  /\ writer[w].pc = "revParse"
  /\ LET tip == refs[HookClone][BRANCH]
     IN  IF tip = NoCommit
         THEN writer' = [writer EXCEPT ![w].ret = "false",
                                       ![w].pc = "unlinkIndex"]
         ELSE writer' = [writer EXCEPT ![w].parent = tip,
                                       ![w].pc = "updateRef"]
  /\ UNCHANGED <<refs, tmpIndex, tmpFiles>>
  /\ WriterFrame

\* Faulty variant: the ref is set without the old value.
WriterUpdateRef_force(w) ==
  /\ writer[w].pc = "updateRef"
  /\ refs' = [refs EXCEPT ![HookClone][UpdatedRef(HookClone)] =
                CommitTree(writer[w].parent, w, writer[w].tree)]
  /\ writer' = [writer EXCEPT ![w].ret = "true", ![w].pc = "unlinkIndex"]
  /\ UNCHANGED <<tmpIndex, tmpFiles>>
  /\ WriterFrame

\* git commit-tree tree -p parent, then git update-ref refs/heads/BRANCH
\* commit parent: the ref moves when it still holds parent, else the command
\* throws and the function returns false.
WriterUpdateRef(w) ==
  /\ writer[w].pc = "updateRef"
  /\ IF refs[HookClone][UpdatedRef(HookClone)] = writer[w].parent
     THEN /\ refs' = [refs EXCEPT ![HookClone][UpdatedRef(HookClone)] =
                        CommitTree(writer[w].parent, w, writer[w].tree)]
          /\ writer' = [writer EXCEPT ![w].ret = "true",
                                      ![w].pc = "unlinkIndex"]
     ELSE /\ UNCHANGED refs
          /\ writer' = [writer EXCEPT ![w].ret = "false",
                                      ![w].pc = "unlinkIndex"]
  /\ UNCHANGED <<tmpIndex, tmpFiles>>
  /\ WriterFrame

\* finally unlinkSync(tmpIndex), a throw ignored; the function returns.
WriterUnlinkIndex(w) ==
  /\ writer[w].pc = "unlinkIndex"
  /\ tmpIndex' = [tmpIndex EXCEPT ![HookClone] =
                    [exists |-> FALSE, tree |-> NoFiles]]
  /\ WGoto(w, "done")
  /\ UNCHANGED <<refs, tmpFiles>>
  /\ WriterFrame

WriterStep(w) ==
  \/ WriterCall(w)
  \/ WriterRevParseTree(w)
  \/ WriterReadTree(w)
  \/ WriterWriteFile(w)
  \/ WriterHashObject(w)
  \/ WriterUpdateIndex(w)
  \/ WriterUnlinkFile(w)
  \/ WriterWriteTree(w)
  \/ WriterRevParse(w)
  \/ WriterUpdateRef(w)
  \/ WriterUnlinkIndex(w)

\* The branch holds one commit; no call has started.
InitWriters ==
  /\ HookInit
  /\ BgInit
  /\ clock = 0
  /\ refs = [c \in Clones |->
               [r \in RefNames |-> IF r = MainRef THEN MainCommit
                                   ELSE IF c = HookClone THEN BaseCommit
                                   ELSE NoCommit]]
  /\ head = [c \in Clones |-> MainRef]
  /\ worktree = [c \in Clones |-> {"README.md"}]
  /\ tmpIndex = [c \in Clones |-> [exists |-> FALSE, tree |-> NoFiles]]
  /\ localMistakes = [c \in Clones |-> IF c = "cA" THEN MistakeA ELSE MistakeB]
  /\ lastSync = [c \in Clones |-> Missing]
  /\ remote = NoCommit
  /\ sp = [r \in Runners |-> IdleSync]
  /\ syncs = 0
  /\ netCalls = {}
  /\ fetchLog = << >>
  /\ syncLog = << >>
  /\ PureInit

NextWriters == \E w \in Writers : WriterStep(w)

SpecWriters == InitWriters /\ [][NextWriters]_vars

\* One call after the other.
NextWritersSeq ==
  \E w \in Writers :
    /\ \A v \in Writers \ {w} : writer[v].pc \in {"idle", "done"}
    /\ WriterStep(w)

SpecWritersSeq == InitWriters /\ [][NextWritersSeq]_vars

(***************************************************************************)
(* Two clones whose ghost/knowledge branches were both created locally,    *)
(* each by its own initSharedBranch, before either fetched the other's     *)
(* branch; the two developers then run `ghost sync` again and again        *)
(***************************************************************************)

\* Each clone runs `ghost sync` at most MaxRounds times.
MaxRounds == 2

\* Each clone holds the orphan commit its own initSharedBranch made; origin
\* has no knowledge branch yet.
InitUnrelated ==
  /\ HookInit
  /\ BgInit
  /\ clock = 0
  /\ refs = [c \in Clones |->
               [r \in RefNames |-> IF r = MainRef THEN MainCommit
                                   ELSE CommitTree(NoCommit, c, EmptyTree)]]
  /\ head = [c \in Clones |-> MainRef]
  /\ worktree = [c \in Clones |-> {"README.md"}]
  /\ tmpIndex = [c \in Clones |-> [exists |-> FALSE, tree |-> EmptyTree]]
  /\ localMistakes = [c \in Clones |-> IF c = "cA" THEN MistakeA ELSE MistakeB]
  /\ lastSync = [c \in Clones |-> Missing]
  /\ remote = NoCommit
  /\ sp = [r \in Runners |-> IdleSync]
  /\ syncs = 0
  /\ netCalls = {}
  /\ fetchLog = << >>
  /\ syncLog = << >>
  /\ PureInit

\* The `ghost sync` commands started in clone c so far.
Started(c) ==
  Cardinality({i \in 1..Len(syncLog) :
                 syncLog[i].ev = "start" /\ syncLog[i].clone = c})

\* `ghost sync` in clone c, its rate limit elapsed.
LaunchSyncIn(c) ==
  /\ sp["s1"].pc = "idle"
  /\ Started(c) < MaxRounds
  /\ shouldFetchRemote(c)
  /\ sp' = [sp EXCEPT !["s1"] =
              [IdleSync EXCEPT !.pc = "i_exists", !.clone = c, !.by = "sync",
                               !.cmd = "sync", !.ret = "p_exists"]]
  /\ syncs' = syncs + 1
  /\ syncLog' = Append(syncLog, [ev |-> "start", clone |-> c, fetched |-> FALSE])
  /\ UNCHANGED <<clock, refs, head, worktree, tmpIndex, localMistakes,
                 lastSync, remote, netCalls, fetchLog>>
  /\ SyncFrame

\* A developer with rounds left waits out the rate limit's interval.
TickRounds ==
  /\ sp["s1"].pc = "idle"
  /\ \E c \in Clones : Started(c) < MaxRounds /\ ~shouldFetchRemote(c)
  /\ clock' = clock + FETCH_INTERVAL_MS
  /\ UNCHANGED <<refs, head, worktree, tmpIndex, localMistakes, lastSync,
                 remote, sp, syncs, netCalls, fetchLog, syncLog>>
  /\ SyncFrame

\* The steps of syncKnowledge in a clone that has the branch.
UnrelatedStep ==
  \/ InitExists("s1")
  \/ PullStep("s1")
  \/ PushStep("s1")

NextUnrelated ==
  \/ TickRounds
  \/ \E c \in Clones : LaunchSyncIn(c)
  \/ UnrelatedStep

SpecUnrelated == InitUnrelated /\ [][NextUnrelated]_vars

\* A running `ghost sync` goes on to its end, time passes, and each developer
\* runs `ghost sync` again when the rate limit has elapsed.
FairUnrelated ==
  /\ SpecUnrelated
  /\ WF_vars(UnrelatedStep)
  /\ WF_vars(TickRounds)
  /\ \A c \in Clones : WF_vars(LaunchSyncIn(c))

(***************************************************************************)
(* Properties                                                              *)
(***************************************************************************)

Appenders == {"prompt", "write", "task", "stop"}

\* Process p takes a step (a launch is the step of the hosting agent).
Steps(p) == proc[p].pc # "idle" /\ proc'[p] # proc[p]

Files == {active[g] : g \in GhostIds} \cup {completed[g] : g \in GhostIds}

Counting(n) == [i \in 1..n |-> i]

\* C1: no session id has a transcript in active/ and in completed/ at the
\* same time, under any interleaving of the hook processes.
C1_AtMostOnePlace ==
  \A g \in GhostIds : ~(active[g].exists /\ completed[g].exists)

\* C2: in every transcript the Prompt headings carry 1, 2, 3, ... in file
\* order: increasing from 1, no gap, no repeated number.
C2_PromptNumbering ==
  \A f \in Files :
    PromptNumbers(f.body) = Counting(Len(PromptNumbers(f.body)))

\* C3: hooks delivered one at a time: the same prompt text submitted twice
\* in a row to a session leaves one Prompt block for it, so no transcript
\* holds two successive Prompt blocks with the same text.
C3_NoRepeatedPrompt ==
  \A f \in Files :
    LET pt == PromptTextsOf(f.body)
    IN  \A i \in 1..(Len(pt) - 1) : pt[i] # pt[i + 1]

C5_AtMostOneFinalizer == \A g \in GhostIds : spawned[g] <= 1

\* C6: no session-map entry of a finalized session remains: an entry that
\* names a transcript in completed/ is there only while the finalize that
\* moved it has still to unregister it.
C6_FinalizedUnmapped ==
  \A a \in AgentIds :
    (sessionMap[a] # None /\ completed[sessionMap[a]].exists) =>
      \E p \in Procs :
        /\ proc[p].kind = "end" /\ proc[p].agent = a
        /\ proc[p].pc \in {"f_unregRead", "f_unregWrite"}

\* C7: a step of an append or finalize call whose agent id has had no
\* transcript in active/ during the call changes no file, spawns nothing,
\* and does not raise; finalize returns absent.
C7_NoLiveNoEffect ==
  [][\A p \in Procs :
       (Steps(p) /\ proc[p].kind \in Appenders \cup {"end"} /\ ~sawLive[p]) =>
         /\ fsVars' = fsVars
         /\ spawned' = spawned
         /\ proc'[p].out \notin {"threw", "spawned"}]_vars

\* C7 witness: a SessionEnd for an agent id without a live transcript has
\* returned (absent).
C7_Witness ==
  \E p \in Procs :
    /\ proc[p].pc = "idle" /\ proc[p].kind = "end"
    /\ proc[p].out = "returned" /\ ~sawLive[p]

\* C8: once a transcript is in completed/, no step of a Prompt, PostWrite,
\* PostTask or Stop hook changes the completed file or creates a file for
\* that id in active/.
C8_CompletedIsFinal ==
  [][\A p \in Procs, g \in GhostIds :
       (Steps(p) /\ proc[p].kind \in Appenders /\ completed[g].exists) =>
         /\ completed'[g] = completed[g]
         /\ active'[g].exists => active[g].exists]_vars

\* C9: a Background Finalizer has been spawned for a session only if the
\* session's transcript, with its ended field, is in completed/.
C9_SpawnAfterMove ==
  \A g \in GhostIds :
    spawned[g] > 0 => completed[g].exists /\ "ended" \in completed[g].keys

\* C9 witness: SessionEnd has spawned the finalizer and returned.
C9_Witness ==
  \E p \in Procs, g \in GhostIds :
    /\ proc[p].pc = "idle" /\ proc[p].out = "spawned"
    /\ spawned[g] = 1

\* The stages the script reaches with summary s when nothing raises.
StagesFor(s) ==
  {"summarize", "redact", "note", "index", "sync"}
    \cup (IF s.ok THEN {"appendSummary"} ELSE {})
    \cup (IF s.ok /\ s.skip THEN {"markSkip"} ELSE {})
    \cup (IF s.ok /\ s.tags # <<>> THEN {"tags"} ELSE {})
    \cup (IF s.ok /\ ~s.skip THEN {"decisions", "mistakes", "autoMistake"}
          ELSE {})

\* C10: every stage of the Background Finalizer is guarded on its own: when
\* the finalizer has exited, whatever stages raised, every stage its summary
\* calls for has run.
C10_EveryStageRuns ==
  \A g \in GhostIds :
    bg[g].pc = "exited" => StagesFor(bg[g].summary) \subseteq bg[g].ran

\* C11: a finalizer whose summary carries the verdict skip sets
\* skip_knowledge in the frontmatter (when it exits without an error) and
\* none of its steps changes the transcript's tags, tags.json, decisions.md
\* or mistakes.md.
C11_SkipLeavesKnowledge ==
  [][\A g \in GhostIds :
       (bg[g].summary.skip /\ bg'[g] # bg[g])
         => /\ tagsJson' = tagsJson
            /\ decisionsMd' = decisionsMd
            /\ mistakesMd' = mistakesMd
            /\ completed'[g].tags = completed[g].tags
            /\ (bg'[g].pc = "exited" /\ bg[g].raised = {}
                  => "skip_knowledge" \in completed[g].keys)]_vars

\* C12: when a finalized transcript holds two or more corrections for one
\* path, the finalizer run for that session (no step of which raised) has
\* appended the automatic mistake entry for it to mistakes.md by the time it
\* exits.
C12_AutoMistakeWritten ==
  \A g \in GhostIds :
    (bg[g].pc = "exited" /\ bg[g].raised = {}
       /\ RepeatedFiles(completed[g]) # {})
      => \E i \in 1..Len(mistakesMd) :
           mistakesMd[i] = [title |-> "Repeated modifications", session |-> g]

\* C13: a hook process that inherits GHOST_INTERNAL exits 0 in its first
\* step and changes nothing: no session file, session map or current-id
\* marker, no finalizer spawned, no finalizer file.
C13_InternalHookInert ==
  [][\A p \in Procs :
       (proc'[p].internal /\ proc'[p] # proc[p])
         => /\ proc'[p].pc = "idle"
            /\ proc'[p].out = "exit0"
            /\ fsVars' = fsVars
            /\ spawned' = spawned
            /\ bgVars' = bgVars]_vars

\* A SessionStart hook carrying the marker has exited.
C13_Witness ==
  \E p \in Procs :
    /\ proc[p].internal
    /\ proc[p].kind = "start"
    /\ proc[p].out = "exit0"
    /\ \E g \in GhostIds : spawned[g] > 0

\* The stages a finalizer runs when there is no summary.
StagesWithoutSummary == {"summarize", "redact", "note", "index", "sync"}

BgRunning ==
  {"summarize", "appendSummary", "markSkip", "tags", "decisions", "mistakes",
   "autoMistake", "redact", "note", "index", "sync", "failed", "cleanup"}

\* C16: .background.pid exists whenever some finalizer is running and is
\* absent when none is, also when the finalizers of two sessions overlap.
C16_PidFileTracksFinalizers ==
  pidFile <=> (\E g \in GhostIds : bg[g].pc \in BgRunning)

\* C17: whenever a completed transcript exists, checkpoint attaches the most
\* recently finalized session's transcript, also while another session is
\* active and owns the current-id marker.
C17_CheckpointMostRecent ==
  (\E g \in GhostIds : completed[g].exists)
    => checkpoint = getMostRecentCompletedId

\* The callers that are hook handlers.
HookCallers ==
  {"session-start", "prompt", "stop", "post-write", "post-task", "session-end"}

\* C15: no hook handler performs a network-bound call (remote fetch or push
\* of the knowledge branch, summarizer call, semantic-index call).
C15_HooksMakeNoNetworkCall ==
  \A n \in netCalls : n.by \notin HookCallers

\* The positions inside initSharedBranch, pushShared and writeSharedFiles.
OrphanWritePcs ==
  {"i_exists", "i_fetch", "i_orphan", "u_exists", "u_merge", "w_readTree",
   "w_addFiles", "w_writeTree", "w_parent", "w_updateRef", "w_unlink",
   "u_push"}

\* C18: no step of initSharedBranch, writeSharedFiles or pushShared changes
\* HEAD, the checked-out branch or a working-tree file (the project files,
\* mistakes.md, .last-sync) of any clone.
C18_OrphanWritesKeepWorktree ==
  [][(\E r \in Runners : sp[r].pc \in OrphanWritePcs /\ sp'[r] # sp[r])
       => /\ head' = head
          /\ worktree' = worktree
          /\ localMistakes' = localMistakes
          /\ lastSync' = lastSync
          /\ \A c \in Clones : refs'[c][MainRef] = refs[c][MainRef]]_vars

\* A clone's knowledge branch holds a commit made by writeSharedFiles on top
\* of the orphan root, and the branch has been pushed.
C18_Witness ==
  \E c \in Clones :
    /\ Len(refs[c][BRANCH]) >= 2
    /\ refs[c][BRANCH][1].by = c
    /\ remote = refs[c][BRANCH]
    /\ head[c] = MainRef

\* Clone cA ran `ghost sync`, then clone cB, then clone cA again, one after
\* the other, and the last run was allowed to fetch.
SyncedABA ==
  /\ Len(syncLog) = 6
  /\ \A i \in 1..6 : syncLog[i].ev = IF i % 2 = 1 THEN "start" ELSE "end"
  /\ \A i \in 1..6 : syncLog[i].clone = IF i \in {3, 4} THEN "cB" ELSE "cA"
  /\ syncLog[6].fetched

Holds(c, entry) ==
  \E i \in 1..Len(localMistakes[c]) :
    localMistakes[c][i] = [k |-> "l", v |-> <<entry>>]

C20_FetchesFiveMinutesApart ==
  \A i, j \in 1..Len(fetchLog) :
    (/\ i < j
     /\ fetchLog[i].clone = fetchLog[j].clone
     /\ fetchLog[i].fn = "pullShared"
     /\ fetchLog[j].fn = "pullShared")
      => fetchLog[j].at - fetchLog[i].at >= FETCH_INTERVAL_MS

\* Title and description of an entry.
TitleDesc(e) == <<e.title, e.description>>

\* C21: for two texts a and b of mistakes.md or decisions.md, every entry
\* of parseKnowledgeEntries(a) and of parseKnowledgeEntries(b) appears in
\* parseKnowledgeEntries(merge(a, b)), and no two entries of the merged
\* result have the same (title, description).
C21_MergeSupersetNoDuplicates ==
  result.done =>
    LET before == parseKnowledgeEntries(input.a)
                    \o parseKnowledgeEntries(input.b)
        after == parseKnowledgeEntries(result.text)
    IN  /\ \A i \in 1..Len(before) : \E j \in 1..Len(after) :
             TitleDesc(after[j]) = TitleDesc(before[i])
        /\ \A i, j \in 1..Len(after) :
             TitleDesc(after[i]) = TitleDesc(after[j]) => i = j

\* C22: for every KnowledgeEntry e, parseKnowledgeEntries of
\* formatKnowledgeEntry(e) is the one-element list [e] (an area "general",
\* an empty tried and an empty rule are left out of the text and read back
\* as such).
C22_ParseFormatRoundTrip ==
  result.done => result.entries = <<EntryOf(input)>>

SeqSet(xs) == {xs[i] : i \in 1..Len(xs)}

NoRepeat(xs) == \A i, j \in 1..Len(xs) : xs[i] = xs[j] => i = j

\* C23: for all tags.json texts a and b, valid JSON or not, mergeTags(a,
\* mergeTags(a, b)) equals mergeTags(a, b), and the value of each tag of
\* the result is the union of the two sides' session-id arrays, each id
\* once.
C23_MergeTagsIdempotentUnion ==
  result.done =>
    /\ result.text # TypeError
    /\ result.again = result.text
    /\ \A i \in 1..Len(result.text.members) :
         LET tag == result.text.members[i][1]
             ids == result.text.members[i][2].ids
         IN  /\ NoRepeat(ids)
             /\ SeqSet(ids) = SeqSet(IdsOf(ParseTags(input.a), tag))
                                \cup SeqSet(IdsOf(ParseTags(input.b), tag))

\* C24: redaction is idempotent: redacting a redacted text gives the same
\* text, so the deep pass of the finalizer changes nothing in a transcript
\* that finalize redacted.
C24_RedactionIdempotent ==
  result.done => result.twice = result.once

\* The score the relevance contract gives entry e: 10 per file of the
\* entry in F, 5 per file among the neighbours, 5 for the area of F when it
\* is not general, the recency term, 20 for a rule, 1 for an entry without
\* files, minus 5 when the staleness probe found it stale.
ContractScore(e, stale) ==
  LET files == SeqSetOf(e.files)
  IN  10 * Cardinality(files \cap SeqSetOf(input.relevantFiles))
        + 5 * Cardinality(files \cap SeqSetOf(input.coModFiles))
        + (IF e.area # "general" /\ e.area = input.area THEN 5 ELSE 0)
        + (CASE ~e.date.set -> 0
             [] e.date.days = 0 -> 3
             [] e.date.days = 10 -> 2
             [] e.date.days = 20 -> 1
             [] OTHER -> 0)
        + (IF e.rule THEN 20 ELSE 0)
        + (IF files = {} THEN 1 ELSE 0)
        - (IF stale THEN 5 ELSE 0)

\* The entries the staleness probe found stale.
FoundStale ==
  {i \in Probed(input) : ProbedStale(input.entries[i], input)}

ContractScores ==
  LET stale == FoundStale
  IN  [i \in 1..Len(input.entries) |->
         ContractScore(input.entries[i], i \in stale)]

NeighbourCount(n) ==
  Cardinality({f \in SeqSetOf(input.files) :
                 f \in DOMAIN input.graph /\ n \in SeqSetOf(input.graph[f])})

Candidates == {n \in Paths \ SeqSetOf(input.files) : NeighbourCount(n) > 0}

\* Path p comes before path q: higher count, or the same count and the
\* lexicographically smaller path.
RanksBefore(p, q) ==
  \/ NeighbourCount(p) > NeighbourCount(q)
  \/ NeighbourCount(p) = NeighbourCount(q) /\ PathBefore(p, q)

\* C26: getCoModifiedFiles returns only paths outside F, counted by the
\* number of files of F whose adjacency list holds them: the k paths with
\* the highest counts, ties broken by lexicographic path order.
C26_TopKNeighboursLexTies ==
  result.done =>
    LET out == result.out
    IN  /\ SeqSetOf(out) \subseteq Candidates
        /\ Len(out) = Min(input.limit, Cardinality(Candidates))
        /\ \A i, j \in 1..Len(out) : i < j => RanksBefore(out[i], out[j])
        /\ \A n \in Candidates \ SeqSetOf(out), j \in 1..Len(out) :
             RanksBefore(out[j], n)

\* The same without the tie-break: only paths outside F, the k highest
\* counts, in non-increasing order of count.
TopKNeighboursByCount ==
  result.done =>
    LET out == result.out
    IN  /\ SeqSetOf(out) \subseteq Candidates
        /\ Len(out) = Min(input.limit, Cardinality(Candidates))
        /\ \A i, j \in 1..Len(out) : i < j => out[i] # out[j]
        /\ \A i, j \in 1..Len(out) :
             i < j => NeighbourCount(out[i]) >= NeighbourCount(out[j])
        /\ \A n \in Candidates \ SeqSetOf(out), j \in 1..Len(out) :
             NeighbourCount(out[j]) >= NeighbourCount(n)

\* The frontmatter tags of session g: of the completed file, else of the
\* active one.
TagsOf(g) ==
  IF completed[g].exists THEN completed[g].tags
  ELSE IF active[g].exists THEN active[g].tags ELSE << >>

IsPrefix(xs, ys) == Len(xs) <= Len(ys) /\ xs = SubSeq(ys, 1, Len(xs))

\* tags.json maps tag to session id g.
Indexed(json, tag, g) ==
  /\ json.kind = "object"
  /\ \E i \in 1..Len(json.members) :
       /\ json.members[i][1] = tag
       /\ g \in SeqSetOf(json.members[i][2].ids)

\* C27: after any sequence of addTags calls the tags of a session's
\* frontmatter hold no tag twice and keep the order of first insertion, no
\* tag's list in tags.json holds a session id twice, and a call that adds
\* only pairs that already exist changes nothing.
C27_TagsDedupedInOrder ==
  /\ [](/\ \A g \in GhostIds : NoRepeat(TagsOf(g))
        /\ tagsJson.kind = "object" =>
             /\ NoRepeat(KeysOf(tagsJson))
             /\ \A i \in 1..Len(tagsJson.members) :
                  NoRepeat(tagsJson.members[i][2].ids))
  /\ [][/\ \A g \in GhostIds : IsPrefix(TagsOf(g), TagsOf(g)')
        /\ (\A i \in 1..Len(input'.tags) :
              /\ input'.tags[i] \in SeqSetOf(TagsOf(input'.id))
              /\ Indexed(tagsJson, input'.tags[i], input'.id))
             => UNCHANGED <<completed, active, tagsJson>>]_vars

\* Session g1 had the tag bug, then a call named a new tag and bug again.
C27_Witness ==
  /\ input.done
  /\ input.id = "g1"
  /\ input.tags = <<"perf", "bug">>
  /\ completed["g1"].tags = <<"bug", "perf">>
  /\ Indexed(tagsJson, "bug", "g2")
  /\ Indexed(tagsJson, "bug", "g1")
  /\ Indexed(tagsJson, "perf", "g1")

\* The session ids tags.json mentions.
IndexedIds ==
  IF tagsJson.kind # "object" THEN {}
  ELSE UNION {SeqSetOf(tagsJson.members[i][2].ids) :
                i \in 1..Len(tagsJson.members)}

\* C28: tags.json is a cache of the session frontmatters: after addTags
\* calls, finalizer tagging and pull/push operations run one at a time,
\* tags.json maps a tag to a session id exactly when the frontmatter of
\* that session lists the tag.
C28_IndexMatchesFrontmatters ==
  /\ \A g \in GhostIds, tag \in CliTags :
       Indexed(tagsJson, tag, g) <=> tag \in SeqSetOf(TagsOf(g))
  /\ IndexedIds \subseteq GhostIds

\* The same over the addTags calls alone.
IndexMatchesLocalSessions ==
  \A g \in GhostIds, tag \in CliTags :
    Indexed(tagsJson, tag, g) <=> tag \in SeqSetOf(TagsOf(g))

\* The matchers of an event key in a settings file.
MatchersOf(file, e) ==
  IF file.kind = "object" /\ file.hasHooks /\ e \in DOMAIN file.hooks
  THEN file.hooks[e] ELSE << >>

EventsOf(file) ==
  IF file.kind = "object" /\ file.hasHooks THEN DOMAIN file.hooks ELSE {}

HookEntries(file) ==
  UNION {UNION {{<<e, file.hooks[e][i].matcher, file.hooks[e][i].hooks[j]>> :
                   j \in 1..Len(file.hooks[e][i].hooks)} :
                  i \in 1..Len(file.hooks[e])} :
           e \in EventsOf(file)}

LiveB ==
  /\ active["g2"].exists
  /\ ~completed["g2"].exists
  /\ sessionMap["B"] = "g2"
  /\ \A q \in Procs : ~(proc[q].pc # "idle" /\ proc[q].kind = "end"
                          /\ proc[q].agent = "B")

\* C31: session B was started after session A: no step of a SessionEnd of
\* A, while B is live, changes the current-id marker, which names B, B's
\* transcript or B's session-map entry.
C31_FinalizeKeepsLaterSession ==
  [][\A p \in Procs :
       (Steps(p) /\ proc[p].kind = "end" /\ proc[p].agent = "A" /\ LiveB) =>
         /\ currentId = "g2"
         /\ currentId' = "g2"
         /\ active'["g2"] = active["g2"]
         /\ completed'["g2"] = completed["g2"]
         /\ sessionMap'["B"] = "g2"]_vars

\* C31 witness: A's SessionEnd has moved A's transcript and returned, the
\* marker names B, and a hook of B has then appended to B's transcript.
C31_Witness ==
  /\ \E p \in Procs :
       /\ proc[p].pc = "idle" /\ proc[p].kind = "end"
       /\ proc[p].agent = "A" /\ proc[p].out = "spawned"
  /\ completed["g1"].exists
  /\ sessionMap["A"] = None
  /\ currentId = "g2"
  /\ LiveB
  /\ \E q \in Procs :
       /\ proc[q].pc = "idle" /\ proc[q].kind \in Appenders
       /\ proc[q].agent = "B" /\ proc[q].out = "returned"
  /\ Len(active["g2"].body) > 0

\* The hashes of the Prompt headings of a transcript, in file order: the
\* prompt hashes appendPrompt recorded.
RECURSIVE RecordedHashes(_)
RecordedHashes(body) ==
  IF body = <<>> THEN <<>>
  ELSE (IF Head(body).k = "P" THEN <<Head(body).h>> ELSE <<>>)
       \o RecordedHashes(Tail(body))

\* The dedup step of appendPrompt in process p, on a transcript that holds
\* a recorded prompt: the prompt is dropped exactly if its hash is the
\* last recorded one.
DedupByLastRecorded(p) ==
  LET recorded == RecordedHashes(active[proc[p].gid].body)
  IN  (proc[p].pc = "dedupRead" /\ proc'[p].pc # "dedupRead"
         /\ active[proc[p].gid].exists /\ Len(recorded) > 0) =>
        IF recorded[Len(recorded)] = promptHash(proc[p].arg)
        THEN proc'[p].pc = "idle" /\ proc'[p].out = "returned"
        ELSE proc'[p].pc = "countResolve"

\* C32: hooks delivered one at a time: appendPrompt drops a prompt whose
\* hash is the last prompt hash recorded in the transcript, whatever
\* Modified, Task or turn-delimiter blocks follow that prompt, and goes on
\* to append a prompt whose hash differs from it; what it then appends is
\* a Prompt block with that prompt.
C32_DedupAgainstLastRecordedHash ==
  [][\A p \in Procs :
       /\ DedupByLastRecorded(p)
       /\ (proc[p].pc = "appendPrompt" /\ proc'[p].pc = "idle") =>
            /\ active'[proc[p].gid].body
                 = Append(active[proc[p].gid].body,
                          PromptBlock(proc[p].n, proc[p].arg, proc[p].agent))]_vars

\* The same for transcripts in which no text carries a hash comment of
\* its own.
DedupWithoutQuotedHashes ==
  [][\A p \in Procs :
       (\A g \in GhostIds : \A i \in 1..Len(active[g].body) :
          MarkersIn(active[g].body[i].t) = <<>>)
         => DedupByLastRecorded(p)]_vars

\* C33: the graph buildCoModGraph returned is the graph of the completed
\* transcripts present when it was called, and it is the cached one only
\* if the cache held the number of those transcripts.
C33_GraphOfCompletedTranscripts ==
  (result.done /\ input.done) =>
    /\ result.graph = GraphOf(input.completed)
    /\ result.cached
         => comodCache.sessionCount = Len(SessionFiles(input.completed))

\* C34: a session-map entry createSession wrote for an agent session that
\* is not finalized (its transcript is in active/) is neither removed nor
\* changed by a step of a hook process of another agent session.
C34_MapEntryKeptByOtherSessions ==
  [][\A p \in Procs, a \in AgentIds :
       (/\ Steps(p)
        /\ proc[p].agent # a
        /\ sessionMap[a] # None
        /\ owner[sessionMap[a]] = a
        /\ active[sessionMap[a]].exists)
         => sessionMap'[a] = sessionMap[a]]_vars

\* The block an appender process is about to append.
BlockFrom(p) ==
  IF proc[p].kind = "prompt"
  THEN PromptBlock(proc[p].n, proc[p].arg, proc[p].agent)
  ELSE BlockOf(proc[p].kind, proc[p].arg, proc[p].agent)

\* The blocks of session g on disk, in active/ and in completed/.
BlocksOnDisk(g) == Len(active[g].body) + Len(completed[g].body)

\* C35: no block of a Prompt, PostWrite, PostTask or Stop hook that runs
\* next to the SessionEnd of its session is lost: a block appended when
\* SessionEnd has moved the transcript is in the completed transcript,
\* and no step of SessionEnd drops a block that is in the transcript.
C35_NoBlockLostToSessionEnd ==
  [][\A p \in Procs :
       /\ (/\ proc[p].pc \in {"append", "appendPrompt"}
           /\ proc'[p].pc = "idle"
           /\ completed[proc[p].gid].exists)
            => /\ Len(completed'[proc[p].gid].body) > 0
               /\ completed'[proc[p].gid].body[Len(completed'[proc[p].gid].body)]
                    = BlockFrom(p)
       /\ (Steps(p) /\ proc[p].kind = "end")
            => \A g \in GhostIds : BlocksOnDisk(g)' >= BlocksOnDisk(g)]_vars

\* C36: hooks delivered one at a time: every transcript in active/ is the
\* value of a session-map entry or of the current-id marker, once the
\* SessionStart that made it has returned.
C36_ActiveTranscriptsReachable ==
  \A g \in GhostIds :
    (/\ active[g].exists
     /\ \A p \in Procs : ~(proc[p].pc # "idle" /\ proc[p].kind = "start"
                             /\ proc[p].gid = g))
      => \/ \E a \in AgentIds : sessionMap[a] = g
         \/ currentId = g

\* C37: the note a Background Finalizer attaches to HEAD is the transcript
\* of the session it was spawned for.
C37_NoteOfOwnSession ==
  [][\A g \in GhostIds :
       (bg[g].pc = "note" /\ bg'[g].pc # "note" /\ gitNote' # gitNote)
         => gitNote' = g]_vars

\* getActiveSessionId: the id in the current-id marker, if the marker is
\* not empty and that id has a transcript in active/.
getActiveSessionId ==
  IF currentId = None THEN None
  ELSE IF ~active[currentId].exists THEN None
  ELSE currentId

\* C38: with no hook process running, getActiveSessionId returns the id of
\* a transcript in active/ whenever active/ holds one.
C38_ActiveSessionVisible ==
  (/\ \A p \in Procs : proc[p].pc = "idle"
   /\ \E g \in GhostIds : active[g].exists)
    => /\ getActiveSessionId # None
       /\ active[getActiveSessionId].exists

\* The call that lands a commit on this step.
Lands(w) ==
  /\ writer[w].pc = "updateRef"
  /\ writer'[w].ret = "true"

\* The ghost/knowledge ref moves only by a call's update-ref, from the tip
\* that call read as parent to a child of it.
RefAdvancesFromParent ==
  [][refs'[HookClone][BRANCH] # refs[HookClone][BRANCH] =>
       \E w \in Writers :
         /\ Lands(w)
         /\ writer[w].parent = refs[HookClone][BRANCH]
         /\ IsAncestor(refs[HookClone][BRANCH], refs'[HookClone][BRANCH])
         /\ Len(refs'[HookClone][BRANCH]) = Len(refs[HookClone][BRANCH]) + 1]_vars

\* C39: with two calls of writeSharedFiles running at once in one clone, the
\* branch tip moves only from the tip a call read as its parent and keeps
\* every commit it had; a call that lands a commit lands one whose tree is
\* the files of the previous tip with the call's own files written over
\* them, and a call that returns false leaves the branch as it was.
C39_WriterLandsPreviousPlusOwn ==
  [][/\ refs'[HookClone][BRANCH] # refs[HookClone][BRANCH] =>
          /\ IsAncestor(refs[HookClone][BRANCH], refs'[HookClone][BRANCH])
          /\ \E w \in Writers :
               Lands(w) /\ writer[w].parent = refs[HookClone][BRANCH]
     /\ \A w \in Writers :
          /\ Lands(w) =>
               TipTree(refs'[HookClone][BRANCH]) =
                 Overlay(TipTree(refs[HookClone][BRANCH]), writer[w].files)
          /\ (writer[w].pc # "done" /\ writer'[w].pc = "done"
                /\ writer[w].ret = "false") =>
               refs'[HookClone][BRANCH] = refs[HookClone][BRANCH]]_vars

\* Both calls have landed a commit.
BothLanded ==
  /\ \A w \in Writers : writer[w].pc = "done" /\ writer[w].ret = "true"
  /\ Len(refs[HookClone][BRANCH]) = 3

\* Each clone's mistakes.md contains the other clone's entry.
Converged == Holds("cA", "b") /\ Holds("cB", "a")

\* Both clones have run `ghost sync` to its end MaxRounds times, each time
\* with a fetch attempted.
AllRoundsSynced ==
  /\ Len(syncLog) = 4 * MaxRounds
  /\ \A i \in 1..Len(syncLog) : syncLog[i].ev = "end" => syncLog[i].fetched

UnrelatedNeverMeet ==
  /\ ~Holds("cA", "b")
  /\ ~Holds("cB", "a")
  /\ ~IsAncestor(refs["cA"][BRANCH], refs["cB"][BRANCH])
  /\ ~IsAncestor(refs["cB"][BRANCH], refs["cA"][BRANCH])

====
